---------------------------- MODULE Spec2Model ----------------------------
(***************************************************************************)
(* A model of the binary decoders and stream loops of the Geyser examples: *)
(*                                                                         *)
(*   src/main.py                                 decode_create_instruction *)
(*                                               and monitor_pump          *)
(*   src/learning-examples/meteora_dlmm_monitor.py                         *)
(*                                     parse_meteora_dlmm_account_data and *)
(*                                     monitor_meteora_pool_price          *)
(*                                                                         *)
(* Conventions.  A Python bytes object is a sequence of numbers 0..255; a  *)
(* Python str is a sequence of Unicode code points.  Python offsets are    *)
(* 0-based, sequences here are 1-based: the byte at Python offset o is     *)
(* data[o + 1].  A Python call either returns a value or raises: the       *)
(* outcome of a call is [kind |-> "return", ...] or                        *)
(* [kind |-> "raise", exc |-> <the exception's class>].                    *)
(***************************************************************************)
EXTENDS Integers, Sequences, FiniteSets, TLC

VARIABLES
    \* one call of decode_create_instruction (src/main.py:51)
    ix_data,        \* the instruction's data: bytes
    keys,           \* msg.account_keys: the transaction's key table
    accounts,       \* ix.accounts: indices into the key table
    info,           \* the outcome of the call; "pending" before it
    \* one call of parse_meteora_dlmm_account_data
    \* (src/learning-examples/meteora_dlmm_monitor.py:311)
    account_data,   \* account_info.account.data: bytes
    pool_data,      \* what the call returned; "pending" before it
    reads,          \* the slices of data the call took, in order
    \* monitor_pump (src/main.py:107)
    pump_pc,        \* where the coroutine is
    n_updates,      \* updates the stream has delivered
    msg,            \* the message of the transaction being examined
    signature,      \* update.transaction.transaction.signature
    ix,             \* the for loop's position in msg.instructions (from 1)
    reported,       \* the positions of msg.instructions printed so far
    stdout,         \* what print_token_info has printed, in order
    \* calculate_discriminator and the memcmp filter
    \* (src/learning-examples/accounts_advanced_filter.py:23, 81)
    tag_name,       \* account_name, the name of the account type: str
    discriminator,  \* what calculate_discriminator returned; "pending" before
    memcmp_bytes,   \* the outcome of discriminator.to_bytes(8, "little")
    \* one call each of calculate_dlmm_price_actual and
    \* calculate_precise_price_decimal
    \* (src/learning-examples/meteora_dlmm_monitor.py:39, 70)
    price_active_id, \* active_id: the bin the pool trades in
    price_bin_step,  \* bin_step: basis points between two bins
    price,           \* the float returned; "pending" before the call
    precise,         \* the str returned; "pending" before the call
    \* invocations of the decoders and price functions from several threads
    context,        \* decimal.getcontext().prec of each thread
    call,           \* the invocation each thread makes: function and input
    frame,          \* the locals of each invocation, and where it is
    offsets,        \* the closure cells "offset" of decode_create_instruction
    outcome,        \* what each invocation returned; "pending" before
    accessed,       \* <<thread, mutable object>>: who read or wrote what
    overlapped,     \* a thread has run while another was inside a call
    \* monitor_meteora_pool_price
    \* (src/learning-examples/meteora_dlmm_monitor.py:270)
    feed,           \* the kind of stream the server sends
    received,       \* responses the stream has delivered
    meteora_pc,     \* where the coroutine is
    update_count,
    printed_count,
    last_printed_update,
    last_price,     \* None or a float
    last_active_id, \* None or an int
    skipped_count,
    event,          \* what the handler of the last response did and printed
    delivered,      \* the last response the stream delivered
    \* main of src/learning-examples/historical_replay_with_from_slot.py
    replay_pc,      \* where the coroutine is
    current_slot,   \* None or an int
    from_slot,      \* None or an int
    subscribed,     \* the from_slot of each replay subscription issued
    slot_count,
    first_slot,     \* None or an int
    temp_others,    \* responses without a slot update, brief subscription
    replay_received,\* responses the replay stream has delivered
    replay_others,  \* those of them without a slot update
    replay_event    \* what the last turn of the replay loop did

decodeVars == <<ix_data, keys, accounts, info>>
accountVars == <<account_data, pool_data, reads>>
pumpVars == <<pump_pc, n_updates, msg, signature, ix, reported, stdout>>
tagVars == <<tag_name, discriminator, memcmp_bytes>>
priceVars == <<price_active_id, price_bin_step, price, precise>>
threadVars == <<context, call, frame, offsets, outcome, accessed, overlapped>>
meteoraVars == <<feed, received, meteora_pc, update_count, printed_count,
                 last_printed_update, last_price, last_active_id,
                 skipped_count, event, delivered>>
replayVars == <<replay_pc, current_slot, from_slot, subscribed, slot_count,
                first_slot, temp_others, replay_received, replay_others,
                replay_event>>

\* What the actions of one component leave alone: the other components.
beyondDecode ==
    <<accountVars, pumpVars, tagVars, priceVars,
      threadVars, meteoraVars, replayVars>>
beyondAccount ==
    <<decodeVars, pumpVars, tagVars, priceVars,
      threadVars, meteoraVars, replayVars>>
beyondPump ==
    <<decodeVars, accountVars, tagVars, priceVars,
      threadVars, meteoraVars, replayVars>>
beyondTag ==
    <<decodeVars, accountVars, pumpVars, priceVars,
      threadVars, meteoraVars, replayVars>>
beyondPrice ==
    <<decodeVars, accountVars, pumpVars, tagVars,
      threadVars, meteoraVars, replayVars>>
beyondThreads ==
    <<decodeVars, accountVars, pumpVars, tagVars,
      priceVars, meteoraVars, replayVars>>
beyondMeteora ==
    <<decodeVars, accountVars, pumpVars, tagVars,
      priceVars, threadVars, replayVars>>
beyondReplay ==
    <<decodeVars, accountVars, pumpVars, tagVars,
      priceVars, threadVars, meteoraVars>>

vars == <<ix_data, keys, accounts, info, account_data, pool_data, reads,
          pump_pc, n_updates, msg, signature, ix, reported, stdout,
          tag_name, discriminator, memcmp_bytes,
          price_active_id, price_bin_step, price, precise,
          context, call, frame, offsets, outcome, accessed, overlapped,
          feed, received, meteora_pc, update_count, printed_count,
          last_printed_update, last_price, last_active_id, skipped_count,
          event, delivered,
          replay_pc, current_slot, from_slot, subscribed, slot_count,
          first_slot, temp_others, replay_received, replay_others,
          replay_event>>

-----------------------------------------------------------------------------
(* Bounds of the checked input sets.                                       *)

\* The three strings of a payload hold at most this many code points in all.
MaxStrTotal == 2
\* Bytes appended after the creator field of a well-formed payload.
MaxPad == 1
\* The longest account-index list drawn (one more than the 8 positions used).
MaxAccounts == 9
\* Account buffers are drawn up to this many bytes above the minimum size.
MaxExtra == 2
\* The updates a stream delivers before it ends.
MaxUpdates == 2
\* The longest account-type name drawn from TagCodePoints.
MaxNameLen == 3
\* Bins are drawn up to this many beyond the 500 that bound the direct path.
MaxBeyond == 2
\* The responses of a mixed stream.
MaxResponses == 3
\* A long stream delivers this many updates beyond the 500 of the forced
\* print.
MaxOver == 2
\* The slot updates of a replay stream.
MaxSlotUpdates == 101
\* The responses without a slot update, in each stream of the replay.
MaxOthers == 1
\* The instructions of a transaction.
MaxIx == 2

-----------------------------------------------------------------------------
(* Python's built-in operations on bytes, as the code uses them.           *)

Min(a, b) == IF a < b THEN a ELSE b

\* data[lo:hi] with 0 <= lo: a slice never fails, it is cut to the buffer.
Slice(data, lo, hi) == SubSeq(data, Min(lo, Len(data)) + 1, Min(hi, Len(data)))

\* int.from_bytes(b, "little"), for values below 2^31.
RECURSIVE FromLE(_)
FromLE(b) == IF b = <<>> THEN 0 ELSE b[1] + 256 * FromLE(Tail(b))

\* bytes.startswith(prefix)
StartsWith(data, prefix) ==
    /\ Len(data) >= Len(prefix)
    /\ SubSeq(data, 1, Len(prefix)) = prefix

Returned(v) == [kind |-> "return", value |-> v]
Raised(e) == [kind |-> "raise", exc |-> e]

\* struct.unpack_from("<I", data, offset)[0]: raises struct.error unless the
\* four bytes at offset lie inside the buffer.
unpack_from_I(data, offset) ==
    IF offset + 4 > Len(data)
    THEN Raised("struct.error")
    ELSE Returned(FromLE(SubSeq(data, offset + 1, offset + 4)))

\* The number of bytes of the UTF-8 sequence a lead byte opens; 0: no lead byte.
Utf8Width(b0) ==
    IF b0 < 128 THEN 1
    ELSE IF b0 >= 194 /\ b0 <= 223 THEN 2
    ELSE IF b0 >= 224 /\ b0 <= 239 THEN 3
    ELSE IF b0 >= 240 /\ b0 <= 244 THEN 4
    ELSE 0

IsCont(b) == b >= 128 /\ b <= 191

\* The second byte's range depends on the lead byte (no overlong forms, no
\* surrogates, nothing above U+10FFFF).
Utf8SecondOK(b0, b1) ==
    IF b0 = 224 THEN b1 >= 160 /\ b1 <= 191
    ELSE IF b0 = 237 THEN b1 >= 128 /\ b1 <= 159
    ELSE IF b0 = 240 THEN b1 >= 144 /\ b1 <= 191
    ELSE IF b0 = 244 THEN b1 >= 128 /\ b1 <= 143
    ELSE IsCont(b1)

Utf8CodePoint(b, i, n) ==
    IF n = 1 THEN b[i]
    ELSE IF n = 2 THEN (b[i] - 192) * 64 + (b[i + 1] - 128)
    ELSE IF n = 3 THEN (b[i] - 224) * 4096 + (b[i + 1] - 128) * 64 + (b[i + 2] - 128)
    ELSE (b[i] - 240) * 262144 + (b[i + 1] - 128) * 4096
         + (b[i + 2] - 128) * 64 + (b[i + 3] - 128)

\* bytes.decode(): strict UTF-8; raises UnicodeDecodeError on a malformed or
\* cut sequence.
RECURSIVE Utf8DecodeFrom(_, _, _)
Utf8DecodeFrom(b, i, acc) ==
    IF i > Len(b) THEN Returned(acc)
    ELSE LET n == Utf8Width(b[i])
         IN IF n = 0 \/ i + n - 1 > Len(b)
            THEN Raised("UnicodeDecodeError")
            ELSE IF /\ n >= 2
                    /\ ~ /\ Utf8SecondOK(b[i], b[i + 1])
                         /\ \A k \in 2..(n - 1) : IsCont(b[i + k])
            THEN Raised("UnicodeDecodeError")
            ELSE Utf8DecodeFrom(b, i + n, Append(acc, Utf8CodePoint(b, i, n)))

bytes_decode(b) == Utf8DecodeFrom(b, 1, <<>>)

\* str.encode(): the UTF-8 bytes of one code point, and of a string.
Utf8EncodeCP(c) ==
    IF c < 128 THEN <<c>>
    ELSE IF c < 2048 THEN <<192 + (c \div 64), 128 + (c % 64)>>
    ELSE IF c < 65536
         THEN <<224 + (c \div 4096), 128 + ((c \div 64) % 64), 128 + (c % 64)>>
    ELSE <<240 + (c \div 262144), 128 + ((c \div 4096) % 64),
           128 + ((c \div 64) % 64), 128 + (c % 64)>>

RECURSIVE str_encode(_)
str_encode(s) ==
    IF s = <<>> THEN <<>> ELSE Utf8EncodeCP(Head(s)) \o str_encode(Tail(s))

-----------------------------------------------------------------------------
(* base58 (the library the code imports), on numbers of any size: a number *)
(* is the sequence of its base-256 digits, most significant first.         *)

\* The alphabet, as the code points of its 58 characters "123...xyz".
B58_ALPHABET ==
    <<49, 50, 51, 52, 53, 54, 55, 56, 57,
      65, 66, 67, 68, 69, 70, 71, 72, 74, 75, 76, 77, 78,
      80, 81, 82, 83, 84, 85, 86, 87, 88, 89, 90,
      97, 98, 99, 100, 101, 102, 103, 104, 105, 106, 107,
      109, 110, 111, 112, 113, 114, 115, 116, 117, 118, 119, 120, 121, 122>>

\* b.lstrip(b"\0"), and the same for any leading value z.
RECURSIVE LStrip(_, _)
LStrip(b, z) == IF b # <<>> /\ Head(b) = z THEN LStrip(Tail(b), z) ELSE b

\* divmod(n, 58) by long division: [q |-> the quotient's digits, r |-> n % 58].
RECURSIVE DivMod58(_, _, _, _)
DivMod58(b, i, rem, q) ==
    IF i > Len(b) THEN [q |-> q, r |-> rem]
    ELSE LET cur == rem * 256 + b[i]
         IN DivMod58(b, i + 1, cur % 58, Append(q, cur \div 58))

\* b58encode_int: while i: i, idx = divmod(i, 58); string = alphabet[idx] + string
RECURSIVE b58encode_int(_, _)
b58encode_int(n, string) ==
    IF n = <<>> THEN string
    ELSE LET d == DivMod58(n, 1, 0, <<>>)
         IN b58encode_int(LStrip(d.q, 0), <<B58_ALPHABET[d.r + 1]>> \o string)

Repeat(x, n) == [i \in 1..n |-> x]

\* base58.b58encode(v).decode(): one "1" for each leading zero byte, then the
\* number's base-58 digits; the text is ASCII, so .decode() never fails.
b58encode(v) ==
    LET body == LStrip(v, 0)
    IN Repeat(B58_ALPHABET[1], Len(v) - Len(body)) \o b58encode_int(body, <<>>)

\* n * 58 + a on base-256 digits, least significant digit first.
RECURSIVE MulAdd58(_, _)
MulAdd58(le, carry) ==
    IF le = <<>> THEN (IF carry = 0 THEN <<>> ELSE <<carry>>)
    ELSE LET cur == Head(le) * 58 + carry
         IN <<cur % 256>> \o MulAdd58(Tail(le), cur \div 256)

Reverse(s) == [i \in 1..Len(s) |-> s[Len(s) + 1 - i]]

B58Index(c) == CHOOSE k \in 0..57 : B58_ALPHABET[k + 1] = c

RECURSIVE b58decode_int(_, _)
b58decode_int(text, le) ==
    IF text = <<>> THEN le
    ELSE b58decode_int(Tail(text), MulAdd58(le, B58Index(Head(text))))

\* base58.b58decode(text), for a text over the alphabet.
b58decode(text) ==
    LET body == LStrip(text, B58_ALPHABET[1])
    IN Repeat(0, Len(text) - Len(body)) \o Reverse(b58decode_int(body, <<>>))

-----------------------------------------------------------------------------
(* src/main.py: the create-instruction decoder.                            *)

\* struct.pack("<Q", 8576854823835016728): the number 0x77071C0528C81E18,
\* least significant byte first.
PUMP_CREATE_PREFIX == <<24, 30, 200, 40, 5, 28, 7, 119>>

\* The sentinel "N/A" of get_account_key, as code points.
NA == <<78, 47, 65>>

\* get_account_key with its bound off by one (index > len(accounts)): the
\* position just past the list is then looked up, and accounts[index] raises.
get_account_key_off_by_one(ks, accs, index) ==
    IF index > Len(accs)
    THEN Returned(NA)
    ELSE IF index >= Len(accs)
    THEN Raised("IndexError")
    ELSE LET account_index == accs[index + 1]
         IN IF account_index >= Len(ks)
            THEN Raised("IndexError")
            ELSE Returned(b58encode(ks[account_index + 1]))

\* get_account_key(index): "N/A" when the instruction names fewer accounts;
\* keys[account_index] raises IndexError beyond the key table.
get_account_key(ks, accs, index) ==
    IF index >= Len(accs)
    THEN Returned(NA)
    ELSE LET account_index == accs[index + 1]
         IN IF account_index >= Len(ks)
            THEN Raised("IndexError")
            ELSE Returned(b58encode(ks[account_index + 1]))

\* read_string advancing by the number of characters of the value, not by
\* the declared number of bytes (offset += len(value)).
read_string_by_chars(data, offset) ==
    LET len4 == unpack_from_I(data, offset)
    IN IF len4.kind = "raise" THEN len4
       ELSE LET length == len4.value
                text == bytes_decode(Slice(data, offset + 4, offset + 4 + length))
            IN IF text.kind = "raise" THEN text
               ELSE [kind |-> "return", value |-> text.value,
                     offset |-> offset + 4 + Len(text.value)]

\* read_string() at the current offset; "offset" is the offset it leaves.
read_string(data, offset) ==
    LET len4 == unpack_from_I(data, offset)
    IN IF len4.kind = "raise" THEN len4
       ELSE LET length == len4.value
                text == bytes_decode(Slice(data, offset + 4, offset + 4 + length))
            IN IF text.kind = "raise" THEN text
               ELSE [kind |-> "return", value |-> text.value,
                     offset |-> offset + 4 + length]

\* read_pubkey() at the current offset.
read_pubkey(data, offset) ==
    [kind |-> "return", value |-> b58encode(Slice(data, offset, offset + 32)),
     offset |-> offset + 32]

\* The dict the function returns; "offset" is the final value of its local
\* offset, kept beside the dict.
decode_create_instruction(data, ks, accs) ==
    LET name == read_string(data, 8)
    IN IF name.kind = "raise" THEN Raised(name.exc) ELSE
    LET symbol == read_string(data, name.offset)
    IN IF symbol.kind = "raise" THEN Raised(symbol.exc) ELSE
    LET uri == read_string(data, symbol.offset)
    IN IF uri.kind = "raise" THEN Raised(uri.exc) ELSE
    LET creator == read_pubkey(data, uri.offset)
        mint == get_account_key(ks, accs, 0)
    IN IF mint.kind = "raise" THEN Raised(mint.exc) ELSE
    LET bonding_curve == get_account_key(ks, accs, 2)
    IN IF bonding_curve.kind = "raise" THEN Raised(bonding_curve.exc) ELSE
    LET associated_bonding_curve == get_account_key(ks, accs, 3)
    IN IF associated_bonding_curve.kind = "raise"
       THEN Raised(associated_bonding_curve.exc) ELSE
    LET user == get_account_key(ks, accs, 7)
    IN IF user.kind = "raise" THEN Raised(user.exc) ELSE
       [kind |-> "return",
        value |-> [name |-> name.value,
                   symbol |-> symbol.value,
                   uri |-> uri.value,
                   creator |-> creator.value,
                   mint |-> mint.value,
                   bonding_curve |-> bonding_curve.value,
                   associated_bonding_curve |-> associated_bonding_curve.value,
                   user |-> user.value],
        offset |-> creator.offset]

-----------------------------------------------------------------------------
(* src/learning-examples/meteora_dlmm_monitor.py: the account decoder.     *)

\* Python's None; a dict is a function from its keys (strings) to values.
None == [py |-> "None"]
EmptyDict == [k \in {} |-> 0]

\* struct.calcsize of the formats the decoder uses.
CalcSize(fmt) ==
    CASE fmt = "<B" -> 1
      [] fmt = "<H" -> 2
      [] fmt \in {"<I", "<i"} -> 4
      [] fmt \in {"<q", "<Q"} -> 8

\* n + 1 on base-256 digits, least significant first (the carry is dropped
\* at the top: the width is fixed).
RECURSIVE Increment(_)
Increment(le) ==
    IF le = <<>> THEN <<>>
    ELSE IF Head(le) = 255 THEN <<0>> \o Increment(Tail(le))
    ELSE <<Head(le) + 1>> \o Tail(le)

\* A number too wide for a machine word: its sign and the base-256 digits of
\* its magnitude, most significant first, without leading zeros.
Wide(neg, le) == [neg |-> neg, mag |-> LStrip(Reverse(le), 0)]

\* The field values with "<i" taken as sign and magnitude (the top bit a
\* sign, the other 31 bits the magnitude) instead of two's complement.
FieldValue_sign_magnitude(fmt, b) ==
    CASE fmt \in {"<B", "<H"} -> FromLE(b)
      [] fmt = "<i" ->
            IF b[4] >= 128
            THEN 0 - (b[1] + 256 * b[2] + 65536 * b[3] + 16777216 * (b[4] - 128))
            ELSE b[1] + 256 * b[2] + 65536 * b[3] + 16777216 * b[4]
      [] fmt \in {"<I", "<Q"} -> Wide(FALSE, b)
      [] fmt = "<q" ->
            IF b[8] >= 128
            THEN Wide(TRUE, Increment([i \in 1..8 |-> 255 - b[i]]))
            ELSE Wide(FALSE, b)

\* The value of a little-endian field: "<B", "<H" unsigned; "<i" two's
\* complement on 32 bits; "<I", "<Q" unsigned and "<q" two's complement on 64
\* bits, as wide numbers.
FieldValue(fmt, b) ==
    CASE fmt \in {"<B", "<H"} -> FromLE(b)
      [] fmt = "<i" ->
            b[1] + 256 * b[2] + 65536 * b[3]
                + 16777216 * (IF b[4] >= 128 THEN b[4] - 256 ELSE b[4])
      [] fmt \in {"<I", "<Q"} -> Wide(FALSE, b)
      [] fmt = "<q" ->
            IF b[8] >= 128
            THEN Wide(TRUE, Increment([i \in 1..8 |-> 255 - b[i]]))
            ELSE Wide(FALSE, b)

\* struct.unpack(fmt, b)[0]: raises struct.error unless b has exactly the
\* format's size.
unpack(fmt, b) ==
    IF Len(b) # CalcSize(fmt)
    THEN Raised("struct.error")
    ELSE Returned(FieldValue(fmt, b))

\* One row of a layout: a field unpacked with a struct format, a 32-byte
\* address rendered in base58 ("32s"), or bytes skipped (offset += n).
Field(name, fmt) == [name |-> name, fmt |-> fmt, skip |-> 0]
Address(name) == [name |-> name, fmt |-> "32s", skip |-> 0]
Skip(n) == [name |-> "", fmt |-> "x", skip |-> n]

\* The static parameters read without the 5 bytes of padding after them.
STATIC_PARAMETERS_unpadded ==
    <<Field("base_factor", "<H"), Field("filter_period", "<H"),
      Field("decay_period", "<H"), Field("reduction_factor", "<H"),
      Field("variable_fee_control", "<I"),
      Field("max_volatility_accumulator", "<I"),
      Field("min_bin_id", "<i"), Field("max_bin_id", "<i"),
      Field("protocol_share", "<H"), Field("base_fee_power_factor", "<B")>>

\* The fields read by parse_static_parameters, in order.
STATIC_PARAMETERS ==
    <<Field("base_factor", "<H"), Field("filter_period", "<H"),
      Field("decay_period", "<H"), Field("reduction_factor", "<H"),
      Field("variable_fee_control", "<I"),
      Field("max_volatility_accumulator", "<I"),
      Field("min_bin_id", "<i"), Field("max_bin_id", "<i"),
      Field("protocol_share", "<H"), Field("base_fee_power_factor", "<B"),
      Skip(5)>>

\* The fields read by parse_variable_parameters, in order.
VARIABLE_PARAMETERS ==
    <<Field("volatility_accumulator", "<I"), Field("volatility_reference", "<I"),
      Field("index_reference", "<i"), Skip(4),
      Field("last_update_timestamp", "<q"), Skip(8)>>

\* The fields read by parse_protocol_fee, in order.
PROTOCOL_FEE ==
    <<Field("amount_x", "<Q"), Field("amount_y", "<Q")>>

\* The top-level fields parse_meteora_dlmm_account_data reads itself.
POOL_FIELDS ==
    <<Field("bump_seed", "<B"), Field("bin_step_seed", "<H"),
      Field("pair_type", "<B"), Field("active_id", "<i"),
      Field("bin_step", "<H"), Field("status", "<B"),
      Field("require_base_factor_seed", "<B"), Field("base_factor_seed", "<H"),
      Field("activation_type", "<B"),
      Field("creator_pool_on_off_control", "<B"),
      Address("token_x_mint"), Address("token_y_mint"),
      Address("reserve_x"), Address("reserve_y")>>

\* A read of the buffer: the slice data[offset : offset + width].
Read(offset, width) == [offset |-> offset, width |-> width]

\* The statements of one layout, from row k on: each field is
\*     d[name] = struct.unpack(fmt, data[offset : offset + size])[0]
\*     offset += size
\* st is the state so far: the dict d, the offset and the reads made.  An
\* exception ends the statements at once.
RECURSIVE ReadLayout(_, _, _, _)
ReadLayout(data, layout, k, st) ==
    IF k > Len(layout) THEN st
    ELSE LET row == layout[k]
         IN IF row.fmt = "x"
            THEN ReadLayout(data, layout, k + 1,
                            [st EXCEPT !.offset = @ + row.skip])
            ELSE IF row.fmt = "32s"
            THEN ReadLayout(data, layout, k + 1,
                    [st EXCEPT
                        !.value = @ @@ (row.name :>
                            b58encode(Slice(data, st.offset, st.offset + 32))),
                        !.offset = @ + 32,
                        !.reads = Append(@, Read(st.offset, 32))])
            ELSE LET size == CalcSize(row.fmt)
                     got == unpack(row.fmt, Slice(data, st.offset, st.offset + size))
                     taken == Append(st.reads, Read(st.offset, size))
                 IN IF got.kind = "raise"
                    THEN [kind |-> "raise", exc |-> got.exc, reads |-> taken]
                    ELSE ReadLayout(data, layout, k + 1,
                            [st EXCEPT !.value = @ @@ (row.name :> got.value),
                                       !.offset = @ + size,
                                       !.reads = taken])

Start(offset) ==
    [kind |-> "return", value |-> EmptyDict, offset |-> offset, reads |-> <<>>]

\* Each returns (params, offset): "value" and "offset"; "reads" are the
\* slices it took.
parse_static_parameters(data, offset) ==
    ReadLayout(data, STATIC_PARAMETERS, 1, Start(offset))

parse_variable_parameters(data, offset) ==
    ReadLayout(data, VARIABLE_PARAMETERS, 1, Start(offset))

\* The protocol fee read as two signed counters ("<q").
parse_protocol_fee_signed(data, offset) ==
    ReadLayout(data, <<Field("amount_x", "<q"), Field("amount_y", "<q")>>, 1,
               Start(offset))

parse_protocol_fee(data, offset) ==
    ReadLayout(data, PROTOCOL_FEE, 1, Start(offset))

\* The smallest buffer the decoder accepts (if len(data) < 500).
MIN_ACCOUNT_LEN == 500

\* The body of the try block, from the statement after the length check.
ParseBody(data) ==
    LET static == parse_static_parameters(data, 8)
    IN IF static.kind = "raise" THEN static ELSE
    LET variable == parse_variable_parameters(data, static.offset)
        reads2 == static.reads \o variable.reads
    IN IF variable.kind = "raise"
       THEN [kind |-> "raise", exc |-> variable.exc, reads |-> reads2] ELSE
    IF Len(data) < variable.offset + 50
    THEN [kind |-> "return", value |-> None, reads |-> reads2] ELSE
    LET pool == ReadLayout(data, POOL_FIELDS, 1,
                    [kind |-> "return",
                     value |-> ("static_parameters" :> static.value)
                                @@ ("variable_parameters" :> variable.value),
                     offset |-> variable.offset,
                     reads |-> reads2])
    IN IF pool.kind = "raise" THEN pool ELSE
    IF Len(data) >= pool.offset + 16
    THEN LET fee == parse_protocol_fee(data, pool.offset)
         IN IF fee.kind = "raise"
            THEN [kind |-> "raise", exc |-> fee.exc,
                  reads |-> pool.reads \o fee.reads]
            ELSE [kind |-> "return",
                  value |-> pool.value @@ ("protocol_fee" :> fee.value),
                  reads |-> pool.reads \o fee.reads]
    ELSE [kind |-> "return", value |-> pool.value, reads |-> pool.reads]

\* src/learning-examples/accounts_advanced_filter.py: hashlib.sha256.
\* SHA-256 (FIPS 180-4) on 32-bit words; a word is <<high, low>>, its two
\* 16-bit halves.
\* Bit p (a power of two) of a xor b, and of a and b, in place.
XorBit(a, b, p) == p * (((a \div p) + (b \div p)) % 2)
AndBit(a, b, p) == p * (((a \div p) % 2) * ((b \div p) % 2))

\* a xor b and a and b, on 16 bits
BitXor(a, b) ==
    XorBit(a, b, 1) + XorBit(a, b, 2) + XorBit(a, b, 4) + XorBit(a, b, 8)
        + XorBit(a, b, 16) + XorBit(a, b, 32) + XorBit(a, b, 64) + XorBit(a, b, 128)
        + XorBit(a, b, 256) + XorBit(a, b, 512) + XorBit(a, b, 1024) + XorBit(a, b, 2048)
        + XorBit(a, b, 4096) + XorBit(a, b, 8192) + XorBit(a, b, 16384) + XorBit(a, b, 32768)

BitAnd(a, b) ==
    AndBit(a, b, 1) + AndBit(a, b, 2) + AndBit(a, b, 4) + AndBit(a, b, 8)
        + AndBit(a, b, 16) + AndBit(a, b, 32) + AndBit(a, b, 64) + AndBit(a, b, 128)
        + AndBit(a, b, 256) + AndBit(a, b, 512) + AndBit(a, b, 1024) + AndBit(a, b, 2048)
        + AndBit(a, b, 4096) + AndBit(a, b, 8192) + AndBit(a, b, 16384) + AndBit(a, b, 32768)

WXor(x, y) == <<BitXor(x[1], y[1]), BitXor(x[2], y[2])>>
WAnd(x, y) == <<BitAnd(x[1], y[1]), BitAnd(x[2], y[2])>>
WNot(x) == <<65535 - x[1], 65535 - x[2]>>

\* x + y modulo 2^32
WAdd(x, y) ==
    LET low == x[2] + y[2]
    IN <<(x[1] + y[1] + (low \div 65536)) % 65536, low % 65536>>

\* x rotated right by n bits, 0 <= n < 32
RotR(x, n) ==
    LET y == IF n >= 16 THEN <<x[2], x[1]>> ELSE x
        p == 2 ^ (n % 16)
        q == 2 ^ (16 - (n % 16))
    IN <<y[1] \div p + (y[2] % p) * q, y[2] \div p + (y[1] % p) * q>>

\* x shifted right by n bits, 0 <= n < 16
ShR(x, n) ==
    LET p == 2 ^ n
        q == 2 ^ (16 - n)
    IN <<x[1] \div p, x[2] \div p + (x[1] % p) * q>>

Ch(x, y, z) == WXor(WAnd(x, y), WAnd(WNot(x), z))
Maj(x, y, z) == WXor(WXor(WAnd(x, y), WAnd(x, z)), WAnd(y, z))
BigSigma0(x) == WXor(WXor(RotR(x, 2), RotR(x, 13)), RotR(x, 22))
BigSigma1(x) == WXor(WXor(RotR(x, 6), RotR(x, 11)), RotR(x, 25))
SmallSigma0(x) == WXor(WXor(RotR(x, 7), RotR(x, 18)), ShR(x, 3))
SmallSigma1(x) == WXor(WXor(RotR(x, 17), RotR(x, 19)), ShR(x, 10))

\* The initial hash value and the round constants.
SHA256_H0 ==
    <<<<27145, 58983>>, <<47975, 44677>>, <<15470, 62322>>, <<42319, 62778>>,
      <<20750, 21119>>, <<39685, 26764>>, <<8067, 55723>>, <<23520, 52505>>>>

SHA256_K ==
    <<<<17034, 12184>>, <<28983, 17553>>, <<46528, 64463>>, <<59829, 56229>>,
      <<14678, 49755>>, <<23025, 4593>>, <<37439, 33444>>, <<43804, 24277>>,
      <<55303, 43672>>, <<4739, 23297>>, <<9265, 34238>>, <<21772, 32195>>,
      <<29374, 23924>>, <<32990, 45566>>, <<39900, 1703>>, <<49563, 61812>>,
      <<58523, 27073>>, <<61374, 18310>>, <<4033, 40390>>, <<9228, 41420>>,
      <<11753, 11375>>, <<19060, 33962>>, <<23728, 43484>>, <<30457, 35034>>,
      <<38974, 20818>>, <<43057, 50797>>, <<45059, 10184>>, <<48985, 32711>>,
      <<50912, 3059>>, <<54695, 37191>>, <<1738, 25425>>, <<5161, 10599>>,
      <<10167, 2693>>, <<11803, 8504>>, <<19756, 28156>>, <<21304, 3347>>,
      <<25866, 29524>>, <<30314, 2747>>, <<33218, 51502>>, <<37490, 11397>>,
      <<41663, 59553>>, <<43034, 26187>>, <<49739, 35696>>, <<51052, 20899>>,
      <<53650, 59417>>, <<54937, 1572>>, <<62478, 13701>>, <<4202, 41072>>,
      <<6564, 49430>>, <<7735, 27656>>, <<10056, 30540>>, <<13488, 48309>>,
      <<14620, 3251>>, <<20184, 43594>>, <<23452, 51791>>, <<26670, 28659>>,
      <<29839, 33518>>, <<30885, 25455>>, <<33992, 30740>>, <<36039, 520>>,
      <<37054, 65530>>, <<42064, 27883>>, <<48889, 41975>>, <<50801, 30962>>>>

\* The message padded to whole 64-byte blocks: a 1 bit, zeros, and the
\* length in bits as 8 big-endian bytes.
Sha256Pad(message) ==
    LET bits == 8 * Len(message)
        zeros == (119 - (Len(message) % 64)) % 64
    IN message \o <<128>> \o Repeat(0, zeros) \o Repeat(0, 4)
        \o <<(bits \div 16777216) % 256, (bits \div 65536) % 256,
             (bits \div 256) % 256, bits % 256>>

\* The 16 big-endian words of the block that starts at byte b (from 1).
BlockWords(padded, b) ==
    [j \in 1..16 |->
        <<256 * padded[b + 4 * (j - 1)] + padded[b + 4 * (j - 1) + 1],
          256 * padded[b + 4 * (j - 1) + 2] + padded[b + 4 * (j - 1) + 3]>>]

\* The message schedule: 64 words grown from the block's 16.
RECURSIVE Schedule(_)
Schedule(w) ==
    IF Len(w) >= 64 THEN w
    ELSE LET t == Len(w) + 1
         IN Schedule(Append(w,
                WAdd(WAdd(SmallSigma1(w[t - 2]), w[t - 7]),
                     WAdd(SmallSigma0(w[t - 15]), w[t - 16]))))

\* Rounds t..64 of the compression function on the working variables
\* v = <<a, b, c, d, e, f, g, h>>.
RECURSIVE Rounds(_, _, _)
Rounds(v, w, t) ==
    IF t > 64 THEN v
    ELSE LET t1 == WAdd(WAdd(WAdd(v[8], BigSigma1(v[5])),
                             WAdd(Ch(v[5], v[6], v[7]), SHA256_K[t])), w[t])
             t2 == WAdd(BigSigma0(v[1]), Maj(v[1], v[2], v[3]))
             after == <<WAdd(t1, t2), v[1], v[2], v[3],
                        WAdd(v[4], t1), v[5], v[6], v[7]>>
         IN IF after = <<>> THEN after ELSE Rounds(after, w, t + 1)

\* The hash value after the blocks from byte b on.
RECURSIVE Sha256Blocks(_, _, _)
Sha256Blocks(h, padded, b) ==
    IF b > Len(padded) THEN h
    ELSE LET v == Rounds(h, Schedule(BlockWords(padded, b)), 1)
         IN Sha256Blocks([j \in 1..8 |-> WAdd(h[j], v[j])], padded, b + 64)

\* hashlib.sha256(message).digest(): 32 bytes, the 8 words big-endian.
sha256_digest(message) ==
    LET h == Sha256Blocks(SHA256_H0, Sha256Pad(message), 1)
    IN [i \in 1..32 |->
            LET word == h[(i - 1) \div 4 + 1]
                half == word[((i - 1) % 4) \div 2 + 1]
            IN IF i % 2 = 1 THEN half \div 256 ELSE half % 256]

\* int.from_bytes(b, "little")
int_from_bytes_little(b) == Wide(FALSE, b)

\* n.to_bytes(length, "little"): raises OverflowError for a negative n and
\* for one that does not fit.
int_to_bytes_little(n, length) ==
    IF n.neg \/ Len(n.mag) > length
    THEN Raised("OverflowError")
    ELSE Returned(Reverse(n.mag) \o Repeat(0, length - Len(n.mag)))

\* "account:"
ACCOUNT_PREFIX == <<97, 99, 99, 111, 117, 110, 116, 58>>

\* The tag with the digest's bytes taken most significant first.
calculate_discriminator_big_endian(account_name) ==
    int_from_bytes_little(
        Reverse(SubSeq(sha256_digest(str_encode(ACCOUNT_PREFIX \o account_name)), 1, 8)))

\* calculate_discriminator(account_name): the first 8 bytes of SHA-256 of
\* "account:" + account_name, as a little-endian integer.
calculate_discriminator(account_name) ==
    int_from_bytes_little(
        SubSeq(sha256_digest(str_encode(ACCOUNT_PREFIX \o account_name)), 1, 8))

\* "BondingCurve"
BONDING_CURVE == <<66, 111, 110, 100, 105, 110, 103, 67, 117, 114, 118, 101>>

BONDING_CURVE_DISCRIMINATOR == calculate_discriminator(BONDING_CURVE)

\* BONDING_CURVE_DISCRIMINATOR.to_bytes(8, "little"), the tag of the known
\* account type in the memcmp filter.
BONDING_CURVE_DISCRIMINATOR_BYTES ==
    int_to_bytes_little(BONDING_CURVE_DISCRIMINATOR, 8).value

\* The decoder with its length check turned round (if len(data) > 500).
parse_meteora_dlmm_account_data_inverted(data) ==
    IF Len(data) > MIN_ACCOUNT_LEN
    THEN [value |-> None, reads |-> <<>>]
    ELSE LET body == ParseBody(data)
         IN IF body.kind = "raise"
            THEN [value |-> None, reads |-> body.reads]
            ELSE [value |-> body.value, reads |-> body.reads]

\* The decoder accepting any buffer of 100 bytes or more (a wrong minimum).
parse_meteora_dlmm_account_data_min_100(data) ==
    IF Len(data) < 100
    THEN [value |-> None, reads |-> <<>>]
    ELSE LET body == ParseBody(data)
         IN IF body.kind = "raise"
            THEN [value |-> None, reads |-> body.reads]
            ELSE [value |-> body.value, reads |-> body.reads]

\* parse_meteora_dlmm_account_data(data): None for a buffer below the
\* minimum and for any exception (except Exception: return None), else the
\* dict; "reads" are the slices taken on the way.
parse_meteora_dlmm_account_data(data) ==
    IF Len(data) < MIN_ACCOUNT_LEN
    THEN [value |-> None, reads |-> <<>>]
    ELSE LET body == ParseBody(data)
         IN IF body.kind = "raise"
            THEN [value |-> None, reads |-> body.reads]
            ELSE [value |-> body.value, reads |-> body.reads]


-----------------------------------------------------------------------------
(* The inputs decode_create_instruction is checked on.                     *)

\* "A" (one byte in UTF-8) and "e acute" (two bytes).
CodePoints == {65, 233}

Strs == UNION {[1..n -> CodePoints] : n \in 0..MaxStrTotal}

StrTriples ==
    {t \in Strs \X Strs \X Strs : Len(t[1]) + Len(t[2]) + Len(t[3]) <= MaxStrTotal}

\* 32-byte addresses: one with every byte significant, and short numbers
\* behind leading zero bytes (as the system program's all-zero address).
FullKey == [i \in 1..32 |-> (i * 37 + 11) % 256]
SmallKey(k) == [i \in 1..32 |-> IF i = 32 THEN k ELSE IF i = 31 THEN 1 ELSE 0]

Creators == {FullKey, SmallKey(7)}

KeyTable == <<SmallKey(0), SmallKey(1), SmallKey(2), FullKey>>

\* struct.pack("<I", n)
PackI(n) == <<n % 256, (n \div 256) % 256, (n \div 65536) % 256, n \div 16777216>>

EncodeString(text) == PackI(Len(str_encode(text))) \o str_encode(text)

\* The layout of a create instruction: the discriminator, three
\* length-prefixed strings, the creator's address.
EncodeCreate(t, creator) ==
    PUMP_CREATE_PREFIX \o EncodeString(t[1]) \o EncodeString(t[2])
        \o EncodeString(t[3]) \o creator

\* An account-index list of n entries into KeyTable; entry number bad (if
\* any) points beyond the table.
AccountList(n, bad) ==
    [i \in 1..n |-> IF i = bad THEN Len(KeyTable) ELSE (i - 1) % Len(KeyTable)]

\* Eight indices, into the first three keys.
FullAccounts == [i \in 1..8 |-> (i - 1) % 3]

Pending == [kind |-> "pending"]

\* The variables of the components a specification leaves alone.
IdleDecode ==
    /\ ix_data = <<>>
    /\ keys = <<>>
    /\ accounts = <<>>
    /\ info = Pending

IdleAccount ==
    /\ account_data = <<>>
    /\ pool_data = Pending
    /\ reads = <<>>

NoMsg == [instructions |-> <<>>, account_keys |-> <<>>]

IdlePump ==
    /\ pump_pc = "idle"
    /\ n_updates = 0
    /\ msg = NoMsg
    /\ signature = <<>>
    /\ ix = 1
    /\ reported = <<>>
    /\ stdout = <<>>

IdleTag ==
    /\ tag_name = <<>>
    /\ discriminator = Pending
    /\ memcmp_bytes = Pending

IdlePrice ==
    /\ price_active_id = 0
    /\ price_bin_step = 0
    /\ price = Pending
    /\ precise = Pending

IdleThreads ==
    /\ context = <<>>
    /\ call = <<>>
    /\ frame = <<>>
    /\ offsets = <<>>
    /\ outcome = <<>>
    /\ accessed = {}
    /\ overlapped = FALSE

IdleMeteora ==
    /\ feed = "none"
    /\ received = 0
    /\ meteora_pc = "idle"
    /\ update_count = 0
    /\ printed_count = 0
    /\ last_printed_update = 0
    /\ last_price = None
    /\ last_active_id = None
    /\ skipped_count = 0
    /\ event = Pending
    /\ delivered = Pending

IdleReplay ==
    /\ replay_pc = "idle"
    /\ current_slot = None
    /\ from_slot = None
    /\ subscribed = <<>>
    /\ slot_count = 0
    /\ first_slot = None
    /\ temp_others = 0
    /\ replay_received = 0
    /\ replay_others = 0
    /\ replay_event = Pending

\* Every payload, whole or followed by padding, and every payload cut short
\* at any byte, with a full account list; and one payload with every account
\* list.
InitDecode ==
    /\ IdleAccount
    /\ IdlePump
    /\ IdleTag
    /\ IdlePrice
    /\ IdleThreads
    /\ IdleMeteora
    /\ IdleReplay
    /\ keys = KeyTable
    /\ info = Pending
    /\ \/ \E t \in StrTriples, creator \in Creators :
            LET whole == EncodeCreate(t, creator)
            IN \E pad \in 0..MaxPad :
                /\ ix_data = whole \o Repeat(0, pad)
                /\ accounts = FullAccounts
       \/ \E t \in StrTriples :
            LET whole == EncodeCreate(t, SmallKey(7))
            IN \E cut \in 0..(Len(whole) - 1) :
                /\ ix_data = SubSeq(whole, 1, cut)
                /\ accounts = FullAccounts
       \/ \E n \in 0..MaxAccounts :
            \E bad \in 0..n :
                /\ ix_data = EncodeCreate(<<<<65>>, <<233>>, <<>>>>, FullKey)
                /\ accounts = AccountList(n, bad)

\* info = decode_create_instruction(ix.data, msg.account_keys, ix.accounts)
Decode ==
    /\ info = Pending
    /\ info' = decode_create_instruction(ix_data, keys, accounts)
    /\ UNCHANGED <<ix_data, keys, accounts, beyondDecode>>

NextDecode == Decode

SpecDecode == InitDecode /\ [][NextDecode]_vars

-----------------------------------------------------------------------------
(* One call of the account decoder, on buffers of every length up to the   *)
(* minimum size and a little more.                                         *)

\* The bytes of a buffer: base, base + step, ... (mod 256): all zero, all
\* 255 (every sign bit set), and a run of distinct bytes.
Patterns == {<<0, 0>>, <<255, 0>>, <<1, 7>>}

Buffer(n, pattern) == [i \in 1..n |-> (pattern[1] + i * pattern[2]) % 256]

InitAccount ==
    /\ IdleDecode
    /\ IdlePump
    /\ IdleTag
    /\ IdlePrice
    /\ IdleThreads
    /\ IdleMeteora
    /\ IdleReplay
    /\ \E n \in 0..(MIN_ACCOUNT_LEN + MaxExtra), pattern \in Patterns :
            account_data = Buffer(n, pattern)
    /\ pool_data = Pending
    /\ reads = <<>>

\* pool_data = parse_meteora_dlmm_account_data(account_info.account.data)
ParseAccount ==
    /\ pool_data = Pending
    /\ LET got == parse_meteora_dlmm_account_data(account_data)
       IN /\ pool_data' = got.value
          /\ reads' = got.reads
    /\ UNCHANGED <<account_data, beyondAccount>>

NextAccount == ParseAccount

SpecAccount == InitAccount /\ [][NextAccount]_vars

-----------------------------------------------------------------------------
(* monitor_pump: the stream loop of src/main.py.                           *)

\* The instructions a transaction is made of: a whole create instruction,
\* one that is only its 8-byte prefix, one of another kind, and one shorter
\* than the prefix.
CreateIx ==
    [data |-> EncodeCreate(<<<<65>>, <<233>>, <<>>>>, SmallKey(7)),
     accounts |-> FullAccounts]
PrefixOnlyIx == [data |-> PUMP_CREATE_PREFIX, accounts |-> FullAccounts]
OtherIx == [data |-> <<1, 2, 3, 4, 5, 6, 7, 8, 9>>, accounts |-> <<0, 1>>]
ShortIx == [data |-> SubSeq(PUMP_CREATE_PREFIX, 1, 3), accounts |-> <<>>]

IxPool == {CreateIx, PrefixOnlyIx, OtherIx, ShortIx}

Transactions == UNION {[1..n -> IxPool] : n \in 0..MaxIx}

\* A 64-byte signature.
Signature == [i \in 1..64 |-> IF i = 64 THEN 9 ELSE 0]

\* What the stream delivers: an update without a transaction (a ping, a slot),
\* or a transaction.  tx.message is a protobuf field, which getattr always
\* finds: msg is never None.
Updates ==
    {[has_transaction |-> FALSE, instructions |-> <<>>]}
        \cup {[has_transaction |-> TRUE, instructions |-> t] : t \in Transactions}

InitPump ==
    /\ IdleDecode
    /\ IdleAccount
    /\ IdleTag
    /\ IdlePrice
    /\ IdleThreads
    /\ IdleMeteora
    /\ IdleReplay
    /\ pump_pc = "await"
    /\ n_updates = 0
    /\ msg = NoMsg
    /\ signature = <<>>
    /\ ix = 1
    /\ reported = <<>>
    /\ stdout = <<>>

\* What print_token_info(info, signature) prints.
print_token_info(record, sig) ==
    [name |-> record.name, symbol |-> record.symbol, mint |-> record.mint,
     bonding_curve |-> record.bonding_curve,
     associated_bonding_curve |-> record.associated_bonding_curve,
     creator |-> record.creator, signature |-> sig]

\* ix.data.startswith(PUMP_CREATE_PREFIX)
IsCreate(instruction) == StartsWith(instruction.data, PUMP_CREATE_PREFIX)

\* async for update in stub.Subscribe(...): the next update arrives; one
\* without a transaction is passed over, a transaction starts the for loop.
ReceiveUpdate ==
    /\ pump_pc = "await"
    /\ n_updates < MaxUpdates
    /\ n_updates' = n_updates + 1
    /\ \E update \in Updates :
        IF ~update.has_transaction
        THEN UNCHANGED <<pump_pc, msg, signature, ix, reported>>
        ELSE /\ msg' = [instructions |-> update.instructions,
                        account_keys |-> KeyTable]
             /\ signature' = Signature
             /\ ix' = 1
             /\ reported' = <<>>
             /\ pump_pc' = "for_ix"
    /\ UNCHANGED <<stdout, beyondPump>>

\* One turn of "for ix in msg.instructions": an instruction that does not
\* start with the prefix is passed over; one that does is decoded and
\* printed.  An exception of the decoder is caught nowhere: it leaves
\* monitor_pump and asyncio.run.
ExamineInstruction ==
    /\ pump_pc = "for_ix"
    /\ ix <= Len(msg.instructions)
    /\ LET instruction == msg.instructions[ix]
       IN IF ~IsCreate(instruction)
          THEN /\ ix' = ix + 1
               /\ UNCHANGED <<pump_pc, reported, stdout>>
          ELSE LET got == decode_create_instruction(
                              instruction.data, msg.account_keys, instruction.accounts)
               IN IF got.kind = "raise"
                  THEN /\ pump_pc' = "raised"
                       /\ UNCHANGED <<ix, reported, stdout>>
                  ELSE /\ stdout' = Append(stdout,
                                print_token_info(got.value, b58encode(signature)))
                       /\ reported' = Append(reported, ix)
                       /\ ix' = ix + 1
                       /\ UNCHANGED pump_pc
    /\ UNCHANGED <<n_updates, msg, signature, beyondPump>>

\* The for loop is through: back to the stream.
EndFor ==
    /\ pump_pc = "for_ix"
    /\ ix > Len(msg.instructions)
    /\ pump_pc' = "await"
    /\ UNCHANGED <<n_updates, msg, signature, ix, reported, stdout,
                   beyondPump>>

\* The stream ends: the async for is through and monitor_pump returns.
EndOfStream ==
    /\ pump_pc = "await"
    /\ pump_pc' = "returned"
    /\ UNCHANGED <<n_updates, msg, signature, ix, reported, stdout,
                   beyondPump>>

NextPump == ReceiveUpdate \/ ExamineInstruction \/ EndFor \/ EndOfStream

SpecPump == InitPump /\ [][NextPump]_vars


-----------------------------------------------------------------------------
(* calculate_discriminator and the bytes of the memcmp filter, as the      *)
(* module level and main() of accounts_advanced_filter.py use them.        *)

\* "B", "e acute" (two bytes in UTF-8) and the euro sign (three bytes).
TagCodePoints == {66, 233, 8364}

\* The names drawn: every short name, the name the example uses, and names
\* that bring "account:" + name to 55, 56 and 64 bytes (the last lengths of
\* one block and the first of two).
AccountNames ==
    UNION {[1..n -> TagCodePoints] : n \in 0..MaxNameLen}
        \cup {BONDING_CURVE, Repeat(65, 47), Repeat(65, 48), Repeat(65, 56)}

InitTag ==
    /\ IdleDecode
    /\ IdleAccount
    /\ IdlePump
    /\ IdlePrice
    /\ IdleThreads
    /\ IdleMeteora
    /\ IdleReplay
    /\ tag_name \in AccountNames
    /\ discriminator = Pending
    /\ memcmp_bytes = Pending

\* DISCRIMINATOR = calculate_discriminator(account_name)
CalculateDiscriminator ==
    /\ discriminator = Pending
    /\ discriminator' = calculate_discriminator(tag_name)
    /\ UNCHANGED <<tag_name, memcmp_bytes, beyondTag>>

\* bytes=DISCRIMINATOR.to_bytes(8, "little"), when the request is built
BuildFilter ==
    /\ discriminator # Pending
    /\ memcmp_bytes = Pending
    /\ memcmp_bytes' = int_to_bytes_little(discriminator, 8)
    /\ UNCHANGED <<tag_name, discriminator, beyondTag>>

NextTag == CalculateDiscriminator \/ BuildFilter

SpecTag == InitTag /\ [][NextTag]_vars

-----------------------------------------------------------------------------
(* The price functions of meteora_dlmm_monitor.py.                         *)
(*                                                                         *)
(* A positive float or Decimal is kept by its natural logarithm, in        *)
(* millionths: Finite(ln).  base ** n is n * ln(base), x / 1000 is         *)
(* ln(x) - ln(1000), and two numbers compare as their logarithms do.  0.0  *)
(* and float("inf") are values of their own.  Two floats less than a       *)
(* millionth apart in logarithm are one value here.                        *)

Finite(ln) == [kind |-> "finite", ln |-> ln]
\* 0.0 and float("inf")
ZERO == [kind |-> "zero"]
INF == [kind |-> "inf"]
\* 1.0
ONE == Finite(0)

\* math.log(10 ** (9 - 6)), in millionths
LN_1000 == 6907755
\* math.log of the largest float (sys.float_info.max): above it a float
\* operation overflows
LN_FLOAT_MAX == 709782713
\* -math.log(2 ** -1075): a result below half the smallest subnormal float
\* is rounded to 0.0
LN_FLOAT_TINY == 745133219
\* The result exponent past which Decimal raises Overflow (Emax = 999999),
\* as a natural logarithm in whole units: 1000000 * ln(10).
LN_DECIMAL_MAX == 2302585
\* One unit of natural logarithm, in millionths.
UNIT == 1000000

\* The bin steps drawn.  bin_step is a 16-bit field of the account: none (0),
\* the usual 1, 25 and 100 basis points, and the largest (65535).
BinSteps == {0, 1, 25, 100, 65535}

\* math.log(1.0 + bin_step / 10000.0), in millionths, for the bin steps drawn
math_log_base(bin_step) ==
    CASE bin_step = 0 -> 0
      [] bin_step = 1 -> 100
      [] bin_step = 25 -> 2497
      [] bin_step = 100 -> 9950
      [] bin_step = 65535 -> 2022011

\* base ** active_id on floats: raises OverflowError above the largest
\* float, gives 0.0 below the smallest.
float_pow(ln_base, n) ==
    LET ln == n * ln_base
    IN IF ln > LN_FLOAT_MAX THEN Raised("OverflowError")
       ELSE IF ln < 0 - LN_FLOAT_TINY THEN Returned(ZERO)
       ELSE Returned(Finite(ln))

\* x / 10 ** (9 - 6) on floats
float_div_1000(x) ==
    IF x.kind # "finite" THEN x
    ELSE IF x.ln - LN_1000 < 0 - LN_FLOAT_TINY THEN ZERO
    ELSE Finite(x.ln - LN_1000)

\* The statements after the direct path: the price by logarithm, clamped at
\* 700 either way, and not divided by 10 ** (9 - 6).
LogPath(active_id, bin_step) ==
    LET log_base == math_log_base(bin_step)
        log_result == active_id * log_base
    IN IF log_result > 700 * UNIT THEN INF
       ELSE IF log_result < 0 - 700 * UNIT THEN ZERO
       ELSE Finite(log_result)

\* calculate_dlmm_price_actual(active_id, bin_step).  No statement of the
\* outer try block raises for integer arguments (base is at least 1.0).
calculate_dlmm_price_actual(active_id, bin_step) ==
    IF active_id = 0 THEN ONE
    ELSE LET direct == float_pow(math_log_base(bin_step), active_id)
         IN IF (IF active_id < 0 THEN 0 - active_id ELSE active_id) <= 500
                /\ direct.kind = "return"
            THEN float_div_1000(direct.value)
            ELSE LogPath(active_id, bin_step)

\* getcontext().prec = 50, in the thread that imports the module; a thread
\* started later has a context of its own, with decimal's default precision.
DECIMAL_PREC == 50
DEFAULT_PREC == 28

\* A str the Decimal function returns: the literals "1.0", "inf" and "~0",
\* or str() of a positive Decimal, kept by its logarithm and the number of
\* significant digits it was rounded to.
Literal(text) == [kind |-> "literal", text |-> text]
DecimalStr(ln, prec) == [kind |-> "decimal", ln |-> ln, prec |-> prec]

\* base ** active_id / 10 ** (9 - 6) on Decimals with 50 digits: raises
\* Overflow when the exponent of the result passes Emax; an underflow is
\* not trapped.
decimal_pow_div_1000(ln_base, n, prec) ==
    IF (n * ln_base) \div UNIT > LN_DECIMAL_MAX
    THEN Raised("decimal.Overflow")
    ELSE Returned(DecimalStr(n * ln_base - LN_1000, prec))

\* calculate_precise_price_decimal(active_id, bin_step), in a thread whose
\* decimal context has precision prec (getcontext().prec).
calculate_precise_price_decimal(active_id, bin_step, prec) ==
    IF active_id = 0 THEN Literal("1.0")
    ELSE LET ln_base == math_log_base(bin_step)
             result == decimal_pow_div_1000(ln_base, active_id, prec)
         IN IF result.kind = "return" THEN result.value
            ELSE LET ln_result == active_id * ln_base
                 IN IF ln_result > 230 * UNIT THEN Literal("inf")
                    ELSE IF ln_result < 0 - 230 * UNIT THEN Literal("~0")
                    ELSE DecimalStr(ln_result, prec)

\* The bins drawn: every bin of the direct path and a few beyond it.
ActiveIds == (0 - 500 - MaxBeyond)..(500 + MaxBeyond)

InitPrice ==
    /\ IdleDecode
    /\ IdleAccount
    /\ IdlePump
    /\ IdleTag
    /\ IdleThreads
    /\ IdleMeteora
    /\ IdleReplay
    /\ price_active_id \in ActiveIds
    /\ price_bin_step \in BinSteps
    /\ price = Pending
    /\ precise = Pending

\* current_price = calculate_dlmm_price_actual(active_id, bin_step)
CalculatePrice ==
    /\ price = Pending
    /\ price' = calculate_dlmm_price_actual(price_active_id, price_bin_step)
    /\ UNCHANGED <<price_active_id, price_bin_step, precise, beyondPrice>>

\* precise_price = calculate_precise_price_decimal(active_id, bin_step)
CalculatePrecise ==
    /\ price # Pending
    /\ precise = Pending
    /\ precise' = calculate_precise_price_decimal(price_active_id, price_bin_step,
                                                  DECIMAL_PREC)
    /\ UNCHANGED <<price_active_id, price_bin_step, price, beyondPrice>>

NextPrice == CalculatePrice \/ CalculatePrecise

SpecPrice == InitPrice /\ [][NextPrice]_vars

-----------------------------------------------------------------------------
(* The decoders and price functions invoked from two threads at once.  A  *)
(* thread runs one invocation, a statement (a call of a helper) at a time, *)
(* and the threads take turns in any order.                                *)

THREADS == {"main", "worker"}

\* The closure cell that holds "offset" for the invocation of thread t: the
\* cell is made by the invocation (offset = 8 is a local of
\* decode_create_instruction, shared only with its own nested functions).
OffsetCell_module_level(t) == "main"

OffsetCell(t) == t

\* The decimal context a thread sees: thread-local.
ContextOf(t) == <<"decimal context", t>>

\* The inputs of the invocations: a whole create instruction, one cut
\* inside its second string, and a whole one whose account list names a key
\* beyond the key table.
DecodeCalls ==
    LET whole == EncodeCreate(<<<<65>>, <<233>>, <<>>>>, SmallKey(7))
    IN <<[data |-> whole, ks |-> KeyTable, accs |-> FullAccounts],
         [data |-> SubSeq(whole, 1, 14), ks |-> KeyTable, accs |-> FullAccounts],
         [data |-> whole, ks |-> KeyTable, accs |-> AccountList(8, 8)]>>

\* Account buffers: distinct bytes in the parameter groups and the scalar
\* fields, zero addresses; of the minimum size, and one byte short of it.
ThreadBuffer(n) == [i \in 1..n |-> IF i <= 88 THEN (1 + 7 * i) % 256 ELSE 0]

ParseCalls ==
    <<ThreadBuffer(MIN_ACCOUNT_LEN), ThreadBuffer(MIN_ACCOUNT_LEN - 1)>>

PriceCalls ==
    <<[active_id |-> 0, bin_step |-> 25], [active_id |-> 20, bin_step |-> 25],
      [active_id |-> 0 - 501, bin_step |-> 1]>>

Calls ==
    {[fn |-> "decode_create_instruction", input |-> i] : i \in 1..Len(DecodeCalls)}
    \cup {[fn |-> "parse_meteora_dlmm_account_data", input |-> i] :
                i \in 1..Len(ParseCalls)}
    \cup {[fn |-> "calculate_dlmm_price_actual", input |-> i] :
                i \in 1..Len(PriceCalls)}
    \cup {[fn |-> "calculate_precise_price_decimal", input |-> i] :
                i \in 1..Len(PriceCalls)}

NewFrame == [pc |-> "start", locals |-> EmptyDict, offset |-> 0, reads |-> <<>>]

InitThreads ==
    /\ IdleDecode
    /\ IdleAccount
    /\ IdlePump
    /\ IdleTag
    /\ IdlePrice
    /\ IdleMeteora
    /\ IdleReplay
    /\ context = [t \in THREADS |->
                    IF t = "main" THEN DECIMAL_PREC ELSE DEFAULT_PREC]
    /\ call \in [THREADS -> Calls]
    /\ frame = [t \in THREADS |-> NewFrame]
    /\ offsets = [t \in THREADS |-> 0]
    /\ outcome = [t \in THREADS |-> Pending]
    /\ accessed = {}
    /\ overlapped = FALSE

\* Thread u is inside its invocation.
Running(u) == outcome[u] = Pending /\ frame[u].pc # "start"

\* Thread t takes a step that reads or writes the mutable objects objs.
Touch(t, objs) ==
    /\ accessed' = accessed \cup {<<t, o>> : o \in objs}
    /\ overlapped' = (overlapped \/ \E u \in THREADS \ {t} : Running(u))

\* The invocation of thread t ends with the outcome got.
Finish(t, got) ==
    /\ outcome' = [outcome EXCEPT ![t] = got]
    /\ frame' = [frame EXCEPT ![t].pc = "done"]

\* The return statement of decode_create_instruction: the dict, its four
\* account keys looked up in order.
ReturnTokenInfo(locals, ks, accs, offset) ==
    LET mint == get_account_key(ks, accs, 0)
    IN IF mint.kind = "raise" THEN Raised(mint.exc) ELSE
    LET bonding_curve == get_account_key(ks, accs, 2)
    IN IF bonding_curve.kind = "raise" THEN Raised(bonding_curve.exc) ELSE
    LET associated_bonding_curve == get_account_key(ks, accs, 3)
    IN IF associated_bonding_curve.kind = "raise"
       THEN Raised(associated_bonding_curve.exc) ELSE
    LET user == get_account_key(ks, accs, 7)
    IN IF user.kind = "raise" THEN Raised(user.exc) ELSE
       [kind |-> "return",
        value |-> [name |-> locals["name"],
                   symbol |-> locals["symbol"],
                   uri |-> locals["uri"],
                   creator |-> locals["creator"],
                   mint |-> mint.value,
                   bonding_curve |-> bonding_curve.value,
                   associated_bonding_curve |-> associated_bonding_curve.value,
                   user |-> user.value],
        offset |-> offset]

AfterPc(pc) ==
    CASE pc = "name" -> "symbol"
      [] pc = "symbol" -> "uri"
      [] pc = "uri" -> "creator"
      [] pc = "creator" -> "return"

\* One statement of decode_create_instruction in thread t: offset = 8, then
\* name = read_string(), symbol = read_string(), uri = read_string(),
\* creator = read_pubkey(), then the return statement.  The nested functions
\* read and write the cell "offset" (nonlocal offset).
DecodeStep(t) ==
    /\ call[t].fn = "decode_create_instruction"
    /\ outcome[t] = Pending
    /\ LET arg == DecodeCalls[call[t].input]
           cell == OffsetCell(t)
           pc == frame[t].pc
       IN /\ Touch(t, {<<"offset", cell>>})
          /\ CASE pc = "start" ->
                    /\ offsets' = [offsets EXCEPT ![cell] = 8]
                    /\ frame' = [frame EXCEPT ![t].pc = "name"]
                    /\ UNCHANGED outcome
               [] pc \in {"name", "symbol", "uri", "creator"} ->
                    LET got == IF pc = "creator"
                               THEN read_pubkey(arg.data, offsets[cell])
                               ELSE read_string(arg.data, offsets[cell])
                    IN IF got.kind = "raise"
                       THEN /\ Finish(t, Raised(got.exc))
                            /\ UNCHANGED offsets
                       ELSE /\ offsets' = [offsets EXCEPT ![cell] = got.offset]
                            /\ frame' = [frame EXCEPT
                                    ![t].pc = AfterPc(pc),
                                    ![t].locals = @ @@ (pc :> got.value)]
                            /\ UNCHANGED outcome
               [] pc = "return" ->
                    /\ Finish(t, ReturnTokenInfo(frame[t].locals, arg.ks,
                                                 arg.accs, offsets[cell]))
                    /\ UNCHANGED offsets
    /\ UNCHANGED <<context, call, beyondThreads>>

\* One statement of parse_meteora_dlmm_account_data in thread t: the length
\* check and offset = 8, the static group, the variable group, the second
\* length check and the top-level fields, the protocol fee and the return.
\* offset and pool_data are locals of the invocation; an exception ends it
\* with None.
ParseStep(t) ==
    /\ call[t].fn = "parse_meteora_dlmm_account_data"
    /\ outcome[t] = Pending
    /\ LET data == ParseCalls[call[t].input]
           f == frame[t]
           at(value, taken) ==
                [kind |-> "return", value |-> value, offset |-> f.offset,
                 reads |-> taken]
           group == CASE f.pc = "static" -> parse_static_parameters(data, f.offset)
                      [] f.pc = "variable" -> parse_variable_parameters(data, f.offset)
                      [] f.pc = "pool" -> ReadLayout(data, POOL_FIELDS, 1,
                                                     at(f.locals, <<>>))
                      [] f.pc = "fee" -> parse_protocol_fee(data, f.offset)
           key == CASE f.pc = "static" -> "static_parameters"
                    [] f.pc = "variable" -> "variable_parameters"
                    [] f.pc = "fee" -> "protocol_fee"
           after == CASE f.pc = "static" -> "variable"
                      [] f.pc = "variable" -> "pool"
                      [] f.pc = "pool" -> "fee"
       IN /\ Touch(t, {})
          /\ CASE f.pc = "start" ->
                    IF Len(data) < MIN_ACCOUNT_LEN
                    THEN Finish(t, [value |-> None, reads |-> <<>>])
                    ELSE /\ frame' = [frame EXCEPT ![t].pc = "static",
                                                   ![t].offset = 8]
                         /\ UNCHANGED outcome
               [] f.pc = "pool" /\ Len(data) < f.offset + 50 ->
                    Finish(t, [value |-> None, reads |-> f.reads])
               [] f.pc = "fee" /\ Len(data) < f.offset + 16 ->
                    Finish(t, [value |-> f.locals, reads |-> f.reads])
               [] OTHER ->
                    IF group.kind = "raise"
                    THEN Finish(t, [value |-> None,
                                    reads |-> f.reads \o group.reads])
                    ELSE IF f.pc = "fee"
                    THEN Finish(t, [value |-> f.locals @@ (key :> group.value),
                                    reads |-> f.reads \o group.reads])
                    ELSE /\ frame' = [frame EXCEPT
                                ![t].pc = after,
                                ![t].offset = group.offset,
                                ![t].reads = @ \o group.reads,
                                ![t].locals =
                                    IF f.pc = "pool" THEN group.value
                                    ELSE @ @@ (key :> group.value)]
                         /\ UNCHANGED outcome
    /\ UNCHANGED <<context, call, offsets, beyondThreads>>

\* calculate_dlmm_price_actual in thread t: floats and locals only.
PriceStep(t) ==
    /\ call[t].fn = "calculate_dlmm_price_actual"
    /\ outcome[t] = Pending
    /\ LET arg == PriceCalls[call[t].input]
       IN Finish(t, calculate_dlmm_price_actual(arg.active_id, arg.bin_step))
    /\ Touch(t, {})
    /\ UNCHANGED <<context, call, offsets, beyondThreads>>

\* calculate_precise_price_decimal in thread t: its Decimal operations read
\* the decimal context of the thread they run in.
PreciseStep(t) ==
    /\ call[t].fn = "calculate_precise_price_decimal"
    /\ outcome[t] = Pending
    /\ LET arg == PriceCalls[call[t].input]
       IN Finish(t, calculate_precise_price_decimal(arg.active_id, arg.bin_step,
                                                    context[t]))
    /\ Touch(t, {ContextOf(t)})
    /\ UNCHANGED <<context, call, offsets, beyondThreads>>

NextThreads ==
    \E t \in THREADS :
        DecodeStep(t) \/ ParseStep(t) \/ PriceStep(t) \/ PreciseStep(t)

SpecThreads == InitThreads /\ [][NextThreads]_vars

-----------------------------------------------------------------------------
(* monitor_meteora_pool_price: the stream loop of meteora_dlmm_monitor.py. *)

SIGNIFICANT_PRICE_CHANGE_PCT_LN == 10
FORCE_PRINT_EVERY_N_UPDATES == 500
MIN_BIN_MOVEMENT == 1

\* "So11111111111111111111111111111111111111112"
SOL_MINT ==
    <<83, 111, 49, 49, 49, 49, 49, 49, 49, 49, 49, 49, 49, 49, 49, 49,
      49, 49, 49, 49, 49, 49, 49, 49, 49, 49, 49, 49, 49, 49, 49, 49,
      49, 49, 49, 49, 49, 49, 49, 49, 49, 49, 50>>

\* An int where None may stand as well (Optional[int]).
PyInt(n) == [py |-> "int", n |-> n]

\* x == float("inf")
IsClamped_infinity_only(x) == x.kind = "inf"

\* x in [float("inf"), 0.0]
IsClamped(x) == x.kind \in {"inf", "zero"}

Abs(n) == IF n < 0 THEN 0 - n ELSE n

\* abs((current - last) / last) * 100 >= SIGNIFICANT_PRICE_CHANGE_PCT, for
\* positive finite floats: the ratio current / last is at least 1.00001 or
\* at most 0.99999, that is 10 millionths either way in logarithm.
PriceChangeSignificant(current, last) ==
    Abs(current.ln - last.ln) >= SIGNIFICANT_PRICE_CHANGE_PCT_LN

\* should_print_update without the comparison of the bins.
should_print_update_prices_only(current, last, active, last_active, count, last_printed) ==
    IF last = None
    THEN [print |-> TRUE, reasons |-> <<"First update">>, divisors |-> <<>>]
    ELSE LET periodic ==
                IF count - last_printed >= FORCE_PRINT_EVERY_N_UPDATES
                THEN <<"Periodic update">> ELSE <<>>
             compared ==
                ~IsClamped(current) /\ ~IsClamped(last) /\ last.kind # "zero"
             change ==
                IF compared /\ PriceChangeSignificant(current, last)
                THEN <<"Price change">> ELSE <<>>
             became ==
                IF IsClamped(current) /\ ~IsClamped(last)
                THEN <<"Price became infinite/zero">> ELSE <<>>
             reasons == periodic \o change \o became
         IN [print |-> reasons # <<>>,
             reasons |-> reasons,
             divisors |-> IF compared THEN <<last>> ELSE <<>>]

\* should_print_update without the forced print.
should_print_update_never_forced(current, last, active, last_active, count, last_printed) ==
    IF last = None
    THEN [print |-> TRUE, reasons |-> <<"First update">>, divisors |-> <<>>]
    ELSE LET compared ==
                ~IsClamped(current) /\ ~IsClamped(last) /\ last.kind # "zero"
             change ==
                IF compared /\ PriceChangeSignificant(current, last)
                THEN <<"Price change">> ELSE <<>>
             bins ==
                IF /\ last_active # None
                   /\ PyInt(active) # last_active
                   /\ Abs(active - last_active.n) >= MIN_BIN_MOVEMENT
                THEN <<"Bin movement">> ELSE <<>>
             became ==
                IF IsClamped(current) /\ ~IsClamped(last)
                THEN <<"Price became infinite/zero">> ELSE <<>>
             reasons == change \o bins \o became
         IN [print |-> reasons # <<>>,
             reasons |-> reasons,
             divisors |-> IF compared THEN <<last>> ELSE <<>>]

\* should_print_update without the reasons about clamped prices.
should_print_update_finite_only(current, last, active, last_active, count, last_printed) ==
    IF last = None
    THEN [print |-> TRUE, reasons |-> <<"First update">>, divisors |-> <<>>]
    ELSE LET periodic ==
                IF count - last_printed >= FORCE_PRINT_EVERY_N_UPDATES
                THEN <<"Periodic update">> ELSE <<>>
             compared ==
                ~IsClamped(current) /\ ~IsClamped(last) /\ last.kind # "zero"
             change ==
                IF compared /\ PriceChangeSignificant(current, last)
                THEN <<"Price change">> ELSE <<>>
             bins ==
                IF /\ last_active # None
                   /\ PyInt(active) # last_active
                   /\ Abs(active - last_active.n) >= MIN_BIN_MOVEMENT
                THEN <<"Bin movement">> ELSE <<>>
             reasons == periodic \o change \o bins
         IN [print |-> reasons # <<>>,
             reasons |-> reasons,
             divisors |-> IF compared THEN <<last>> ELSE <<>>]

\* should_print_update(current_price, last_price, active_id, last_active_id,
\* update_count, last_printed_update): "print" and "reasons" are what it
\* returns (the reasons not yet joined), "divisors" the numbers it divided
\* by.
should_print_update(current, last, active, last_active, count, last_printed) ==
    IF last = None
    THEN [print |-> TRUE, reasons |-> <<"First update">>, divisors |-> <<>>]
    ELSE LET periodic ==
                IF count - last_printed >= FORCE_PRINT_EVERY_N_UPDATES
                THEN <<"Periodic update">> ELSE <<>>
             compared ==
                ~IsClamped(current) /\ ~IsClamped(last) /\ last.kind # "zero"
             change ==
                IF compared /\ PriceChangeSignificant(current, last)
                THEN <<"Price change">> ELSE <<>>
             bins ==
                IF /\ last_active # None
                   /\ PyInt(active) # last_active
                   /\ Abs(active - last_active.n) >= MIN_BIN_MOVEMENT
                THEN <<"Bin movement">> ELSE <<>>
             became ==
                IF IsClamped(current) /\ ~IsClamped(last)
                THEN <<"Price became infinite/zero">> ELSE <<>>
             recovered ==
                IF IsClamped(last) /\ ~IsClamped(current)
                THEN <<"Price recovered from infinite/zero">> ELSE <<>>
             reasons == periodic \o change \o bins \o became \o recovered
         IN [print |-> reasons # <<>>,
             reasons |-> reasons,
             divisors |-> IF compared THEN <<last>> ELSE <<>>]

\* The block that prints an update, taking 1 / current_price whatever the
\* price is.
PrintUpdate_unguarded_inverse(pool, current, last, decision, count, skipped) ==
    LET active == pool["active_id"]
        step == pool["bin_step"]
        inverse == /\ pool["token_x_mint"] # SOL_MINT
                   /\ pool["token_y_mint"] = SOL_MINT
        changes == last # None /\ ~IsClamped(current) /\ ~IsClamped(last)
    IN [kind |-> "printed",
        update |-> count,
        reasons |-> decision.reasons,
        skipped |-> skipped,
        precise_price |-> calculate_precise_price_decimal(active, step,
                                                          DECIMAL_PREC),
        inverse |-> inverse,
        divisors |-> decision.divisors
                        \o (IF inverse THEN <<current>> ELSE <<>>)
                        \o (IF changes THEN <<last>> ELSE <<>>)]

\* The block that prints an update: what it shows and the numbers it
\* divides by.  mint_y = SOL shows 1 / current_price unless the price is 0;
\* the changes since the last update are shown when both prices are finite
\* and not zero.
PrintUpdate(pool, current, last, decision, count, skipped) ==
    LET active == pool["active_id"]
        step == pool["bin_step"]
        inverse == /\ pool["token_x_mint"] # SOL_MINT
                   /\ pool["token_y_mint"] = SOL_MINT
                   /\ current.kind # "zero"
        changes == last # None /\ ~IsClamped(current) /\ ~IsClamped(last)
    IN [kind |-> "printed",
        update |-> count,
        reasons |-> decision.reasons,
        skipped |-> skipped,
        precise_price |-> calculate_precise_price_decimal(active, step,
                                                          DECIMAL_PREC),
        inverse |-> inverse,
        divisors |-> decision.divisors
                        \o (IF inverse THEN <<current>> ELSE <<>>)
                        \o (IF changes THEN <<last>> ELSE <<>>)]

\* struct.pack("<i", n) and struct.pack("<H", n)
PackInt32(n) ==
    <<n % 256, (n \div 256) % 256, (n \div 65536) % 256,
      (n \div 16777216) % 256>>
PackUInt16(n) == <<n % 256, n \div 256>>

\* An account of the minimum size holding active_id, bin_step and the two
\* mints, zero elsewhere.
PoolAccount(active_id, bin_step, mint_x, mint_y) ==
    Repeat(0, 76) \o PackInt32(active_id) \o PackUInt16(bin_step)
        \o Repeat(0, 6) \o mint_x \o mint_y
        \o Repeat(0, MIN_ACCOUNT_LEN - 152)

\* The 32 bytes of the wrapped SOL mint: b58encode of them is SOL_MINT.
SOL_MINT_BYTES ==
    <<6, 155, 136, 87, 254, 171, 129, 132, 251, 104, 127, 99, 70, 24, 192, 53,
      218, 196, 57, 220, 26, 235, 59, 85, 152, 160, 240, 0, 0, 0, 0, 1>>
OTHER_MINT_BYTES == SmallKey(9)

\* A response of the stream: whether response.account is truthy, and
\* account_info.account.data.
AccountUpdate(data) == [account |-> TRUE, data |-> data]
NoAccount == [account |-> FALSE, data |-> <<>>]

\* The pools of a mixed stream: neighbouring bins, bins of equal price
\* (bin_step 0), prices that overflow and underflow, SOL on either side.
MixedPools ==
    {PoolAccount(0, 25, OTHER_MINT_BYTES, OTHER_MINT_BYTES),
     PoolAccount(1, 25, OTHER_MINT_BYTES, OTHER_MINT_BYTES),
     PoolAccount(1, 0, OTHER_MINT_BYTES, SOL_MINT_BYTES),
     PoolAccount(2, 0, SOL_MINT_BYTES, OTHER_MINT_BYTES),
     PoolAccount(400, 65535, OTHER_MINT_BYTES, SOL_MINT_BYTES),
     PoolAccount(0 - 400, 65535, OTHER_MINT_BYTES, SOL_MINT_BYTES)}

\* What a stream of each kind may deliver next: anything; the same pool
\* again and again; account updates without data.
ResponsesOf(kind) ==
    CASE kind = "mixed" ->
            {NoAccount, AccountUpdate(<<>>),
             AccountUpdate(Repeat(0, MIN_ACCOUNT_LEN - 1))}
                \cup {AccountUpdate(d) : d \in MixedPools}
      [] kind = "quiet" ->
            {AccountUpdate(PoolAccount(1, 25, OTHER_MINT_BYTES, OTHER_MINT_BYTES))}
      [] kind = "silent" -> {AccountUpdate(<<>>)}

StreamLimit(kind) ==
    IF kind = "mixed" THEN MaxResponses
    ELSE FORCE_PRINT_EVERY_N_UPDATES + MaxOver

Ignored == [kind |-> "ignored"]
Undecodable == [kind |-> "undecodable"]
Skipped == [kind |-> "skipped"]

InitMeteora ==
    /\ IdleDecode
    /\ IdleAccount
    /\ IdlePump
    /\ IdleTag
    /\ IdlePrice
    /\ IdleThreads
    /\ IdleReplay
    /\ feed \in {"mixed", "quiet", "silent"}
    /\ received = 0
    /\ meteora_pc = "await"
    /\ update_count = 0
    /\ printed_count = 0
    /\ last_printed_update = 0
    /\ last_price = None
    /\ last_active_id = None
    /\ skipped_count = 0
    /\ event = Pending
    /\ delivered = Pending

\* One turn of "async for response in stub.Subscribe(...)": the whole body
\* of the loop for the next response.  pool, current_price and decision are
\* the locals pool_data, current_price and (should_print, reason), each
\* computed once.
ReceiveResponse ==
    /\ meteora_pc = "await"
    /\ received < StreamLimit(feed)
    /\ received' = received + 1
    /\ \E response \in ResponsesOf(feed) :
        /\ delivered' = response
        /\ IF ~response.account
           THEN /\ event' = Ignored
                /\ UNCHANGED <<update_count, printed_count, last_printed_update,
                               last_price, last_active_id, skipped_count>>
           ELSE
           /\ update_count' = update_count + 1
           /\ \E pool \in {IF response.data = <<>> THEN None
                            ELSE parse_meteora_dlmm_account_data(response.data).value} :
              IF \/ pool = None
                 \/ DOMAIN pool = {}
                 \/ "active_id" \notin DOMAIN pool
                 \/ "bin_step" \notin DOMAIN pool
              THEN /\ event' = Undecodable
                   /\ UNCHANGED <<printed_count, last_printed_update,
                                  last_price, last_active_id, skipped_count>>
              ELSE
              \E current_price \in {calculate_dlmm_price_actual(pool["active_id"],
                                                                pool["bin_step"])} :
              \E decision \in {should_print_update(current_price, last_price,
                                   pool["active_id"], last_active_id,
                                   update_count + 1, last_printed_update)} :
                 /\ IF decision.print
                    THEN /\ printed_count' = printed_count + 1
                         /\ last_printed_update' = update_count + 1
                         /\ skipped_count' = 0
                         /\ event' = PrintUpdate(pool, current_price, last_price,
                                        decision, update_count + 1, skipped_count)
                    ELSE /\ skipped_count' = skipped_count + 1
                         /\ event' = Skipped
                         /\ UNCHANGED <<printed_count, last_printed_update>>
                 /\ last_price' = IF IsClamped(current_price) THEN last_price
                                  ELSE current_price
                 /\ last_active_id' = PyInt(pool["active_id"])
    /\ UNCHANGED <<feed, meteora_pc, beyondMeteora>>

\* The stream ends: the async for is through and the coroutine returns.
MeteoraEndOfStream ==
    /\ meteora_pc = "await"
    /\ meteora_pc' = "returned"
    /\ UNCHANGED <<feed, received, update_count, printed_count,
                   last_printed_update, last_price, last_active_id,
                   skipped_count, event, delivered, beyondMeteora>>

NextMeteora == ReceiveResponse \/ MeteoraEndOfStream

SpecMeteora == InitMeteora /\ [][NextMeteora]_vars

-----------------------------------------------------------------------------
(* main of historical_replay_with_from_slot.py: the current slot from Ping *)
(* or from a brief subscription, then the replay from 100 slots back.      *)

SLOTS_BACK == 100
PROGRESS_EVERY == 100
CATCH_UP_MARGIN == 10

\* The slots the network may be at.
NetworkSlots == {0, 50, 150}

\* A response of a slot stream: whether response.slot is truthy, and
\* response.slot.slot.
SlotUpdate(s) == [slot |-> TRUE, value |-> s]
NoSlot == [slot |-> FALSE, value |-> 0]

\* The slots a replay towards current may deliver: slot 0 (the value of an
\* unset field), the one asked for, the last one before the margin, the
\* first one inside it, the current one.
ReplaySlots(current) ==
    {s \in {0, current - SLOTS_BACK, current - CATCH_UP_MARGIN - 1,
            current - CATCH_UP_MARGIN, current} : s >= 0}

\* response.slot.slot >= current_slot - 10
CaughtUp_beyond(slot, current) == slot >= current + CATCH_UP_MARGIN
CaughtUp(slot, current) == slot >= current - CATCH_UP_MARGIN

\* from_slot is an unsigned 64-bit field of SubscribeRequest.
FitsUInt64(n) == n >= 0

InitReplay ==
    /\ IdleDecode
    /\ IdleAccount
    /\ IdlePump
    /\ IdleTag
    /\ IdlePrice
    /\ IdleThreads
    /\ IdleMeteora
    /\ replay_pc = "ping"
    /\ current_slot = None
    /\ from_slot = None
    /\ subscribed = <<>>
    /\ slot_count = 0
    /\ first_slot = None
    /\ temp_others = 0
    /\ replay_received = 0
    /\ replay_others = 0
    /\ replay_event = Pending

\* ping_response = await stub.Ping(ping_request) answers and
\* ping_response.slot is read.
PingReturns ==
    /\ replay_pc = "ping"
    /\ \E s \in NetworkSlots : current_slot' = PyInt(s)
    /\ replay_pc' = "check"
    /\ UNCHANGED <<from_slot, subscribed, slot_count, first_slot, temp_others,
                   replay_received, replay_others, replay_event, beyondReplay>>

\* Anything raised in the try block is swallowed by the bare except, which
\* opens the brief subscription.
PingFails ==
    /\ replay_pc = "ping"
    /\ replay_pc' = "temp"
    /\ UNCHANGED <<current_slot, from_slot, subscribed, slot_count, first_slot,
                   temp_others, replay_received, replay_others, replay_event,
                   beyondReplay>>

\* One turn of the loop over the brief subscription.
TempResponse ==
    /\ replay_pc = "temp"
    /\ \E response \in {NoSlot} \cup {SlotUpdate(s) : s \in NetworkSlots} :
        IF response.slot
        THEN /\ current_slot' = PyInt(response.value)
             /\ replay_pc' = "check"
             /\ UNCHANGED temp_others
        ELSE /\ temp_others < MaxOthers
             /\ temp_others' = temp_others + 1
             /\ UNCHANGED <<current_slot, replay_pc>>
    /\ UNCHANGED <<from_slot, subscribed, slot_count, first_slot,
                   replay_received, replay_others, replay_event, beyondReplay>>

\* The brief subscription ends without a slot update.
TempEnd ==
    /\ replay_pc = "temp"
    /\ replay_pc' = "check"
    /\ UNCHANGED <<current_slot, from_slot, subscribed, slot_count, first_slot,
                   temp_others, replay_received, replay_others, replay_event,
                   beyondReplay>>

\* The brief subscription fails: nothing in main catches the error.
TempError ==
    /\ replay_pc = "temp"
    /\ replay_pc' = "raised"
    /\ replay_event' = [kind |-> "raise", exc |-> "RpcError"]
    /\ UNCHANGED <<current_slot, from_slot, subscribed, slot_count, first_slot,
                   temp_others, replay_received, replay_others, beyondReplay>>

\* From "if not current_slot" to the opening of the replay subscription:
\* return without a current slot (None or 0); else from_slot is computed,
\* the request is built, which raises ValueError for a from_slot that is not
\* an unsigned number, and the stream is opened with it.
StartReplay ==
    /\ replay_pc = "check"
    /\ IF current_slot = None \/ current_slot = PyInt(0)
       THEN /\ replay_pc' = "returned"
            /\ UNCHANGED <<from_slot, subscribed, replay_event>>
       ELSE /\ from_slot' = PyInt(current_slot.n - SLOTS_BACK)
            /\ IF FitsUInt64(current_slot.n - SLOTS_BACK)
               THEN /\ subscribed' = Append(subscribed, from_slot')
                    /\ replay_pc' = "replay"
                    /\ UNCHANGED replay_event
               ELSE /\ replay_pc' = "raised"
                    /\ replay_event' = [kind |-> "raise", exc |-> "ValueError"]
                    /\ UNCHANGED subscribed
    /\ UNCHANGED <<current_slot, slot_count, first_slot, temp_others,
                   replay_received, replay_others, beyondReplay>>

\* One turn of the replay loop: the whole body for the next response.
ReplayResponse ==
    /\ replay_pc = "replay"
    /\ replay_received' = replay_received + 1
    /\ \E response \in {NoSlot}
                \cup {SlotUpdate(s) : s \in ReplaySlots(current_slot.n)} :
        IF ~response.slot
        THEN /\ replay_others < MaxOthers
             /\ replay_others' = replay_others + 1
             /\ replay_event' = [kind |-> "other"]
             /\ UNCHANGED <<slot_count, first_slot, replay_pc>>
        ELSE
        LET first == IF first_slot = None THEN response.value
                     ELSE first_slot.n
            progress == (slot_count + 1) % PROGRESS_EVERY = 0
            divisor == current_slot.n - first
            stop == CaughtUp(response.value, current_slot.n)
        IN /\ slot_count < MaxSlotUpdates
           /\ slot_count' = slot_count + 1
           /\ first_slot' = PyInt(first)
           /\ replay_others' = replay_others
           /\ IF progress /\ divisor = 0
              THEN /\ replay_pc' = "raised"
                   /\ replay_event' =
                        [kind |-> "raise", exc |-> "ZeroDivisionError"]
              ELSE /\ replay_pc' = IF stop THEN "returned" ELSE "replay"
                   /\ replay_event' =
                        [kind |-> "slot", value |-> response.value,
                         divisors |-> IF progress THEN <<divisor>> ELSE <<>>,
                         stop |-> stop]
    /\ UNCHANGED <<current_slot, from_slot, subscribed, temp_others,
                   beyondReplay>>

\* The replay stream ends.
ReplayEnd ==
    /\ replay_pc = "replay"
    /\ replay_pc' = "returned"
    /\ replay_event' = [kind |-> "end"]
    /\ UNCHANGED <<current_slot, from_slot, subscribed, slot_count, first_slot,
                   temp_others, replay_received, replay_others, beyondReplay>>

\* The replay stream fails: except grpc.RpcError prints and main returns.
ReplayError ==
    /\ replay_pc = "replay"
    /\ replay_pc' = "returned"
    /\ replay_event' = [kind |-> "except", exc |-> "RpcError"]
    /\ UNCHANGED <<current_slot, from_slot, subscribed, slot_count, first_slot,
                   temp_others, replay_received, replay_others, beyondReplay>>

NextReplay ==
    \/ PingReturns
    \/ PingFails
    \/ TempResponse
    \/ TempEnd
    \/ TempError
    \/ StartReplay
    \/ ReplayResponse
    \/ ReplayEnd
    \/ ReplayError

SpecReplay == InitReplay /\ [][NextReplay]_vars

-----------------------------------------------------------------------------
(* Claims about decode_create_instruction, checked under SpecDecode.       *)

\* The layout of a payload read off the buffer itself: the offsets of the
\* three length prefixes and of the creator, as far as the buffer holds
\* them.  prefixes[k] is the offset of the k-th length prefix; exceeds says
\* that some prefix, string body or the creator passes the buffer's end.
RECURSIVE Walk(_, _, _)
Walk(data, offset, prefixes) ==
    IF Len(prefixes) = 3
    THEN [prefixes |-> prefixes, creator |-> offset,
          exceeds |-> offset + 32 > Len(data)]
    ELSE IF offset + 4 > Len(data)
    THEN [prefixes |-> prefixes, creator |-> -1, exceeds |-> TRUE]
    ELSE LET length == FromLE(SubSeq(data, offset + 1, offset + 4))
         IN IF offset + 4 + length > Len(data)
            THEN [prefixes |-> Append(prefixes, offset), creator |-> -1,
                  exceeds |-> TRUE]
            ELSE Walk(data, offset + 4 + length, Append(prefixes, offset))

Layout(data) == Walk(data, 8, <<>>)

DeclaredLength(data, k) ==
    LET o == Layout(data).prefixes[k] IN FromLE(SubSeq(data, o + 1, o + 4))

Decoded == info # Pending

\* C1: whenever a length prefix, a string body or the 32-byte creator field
\* would pass the end of ix_data, decode_create_instruction returns no
\* record.
C1_TruncatedReturnsNoRecord ==
    (Decoded /\ Layout(ix_data).exceeds) => info.kind # "return"

C4_FieldLengthsAsDeclared ==
    (Decoded /\ info.kind = "return") =>
        /\ Len(str_encode(info.value.name)) = DeclaredLength(ix_data, 1)
        /\ Len(str_encode(info.value.symbol)) = DeclaredLength(ix_data, 2)
        /\ Len(str_encode(info.value.uri)) = DeclaredLength(ix_data, 3)
        /\ Len(b58decode(info.value.creator)) = 32

\* The record's field for each position of the account-index list used.
Resolved(record, position) ==
    CASE position = 0 -> record.mint
      [] position = 2 -> record.bonding_curve
      [] position = 3 -> record.associated_bonding_curve
      [] position = 7 -> record.user

RequiredPositions == {0, 2, 3, 7}

PresentInRange(ks, accs) ==
    \A p \in RequiredPositions : p < Len(accs) => accs[p + 1] < Len(ks)

WellFormed(data) ==
    \E t \in StrTriples, creator \in Creators : data = EncodeCreate(t, creator)

\* C5: with fewer than 8 account indices the decoder still returns a record
\* (for a well-formed payload whose present indices lie in the key table);
\* in every record, a position beyond the list is "N/A" and a present one
\* is the address keys[accounts[position]].
C5_ShortAccountListDegrades ==
    /\ (Decoded /\ Len(accounts) < 8 /\ WellFormed(ix_data)
            /\ PresentInRange(keys, accounts)) => info.kind = "return"
    /\ (Decoded /\ info.kind = "return") =>
        \A p \in RequiredPositions :
            IF p >= Len(accounts)
            THEN Resolved(info.value, p) = NA
            ELSE /\ Resolved(info.value, p) # NA
                 /\ b58decode(Resolved(info.value, p)) = keys[accounts[p + 1] + 1]

\* A record from a list of 3 indices: positions 0 and 2 resolved, 3 and 7
\* "N/A".
C5_Witness ==
    /\ Decoded
    /\ info.kind = "return"
    /\ Len(accounts) = 3
    /\ b58decode(info.value.mint) = KeyTable[1]
    /\ b58decode(info.value.bonding_curve) = KeyTable[3]
    /\ info.value.associated_bonding_curve = NA
    /\ info.value.user = NA

\* C6: an index at a required position that points beyond the key table is
\* reported as a value: no exception leaves the decoder.
C6_KeyIndexOutOfRangeIsAValue ==
    (Decoded /\ ~PresentInRange(keys, accounts)) => info.kind # "raise"

-----------------------------------------------------------------------------
(* Claims about parse_meteora_dlmm_account_data, checked under SpecAccount.*)

Parsed == pool_data # Pending

\* C2: for every buffer shorter than the minimum size of 500 bytes the
\* decoder returns the failure outcome (None) at once: it reads no field and
\* returns no partly filled record.
C2_ShortBufferRejectedUnread ==
    (Parsed /\ Len(account_data) < 500) => (pool_data = None /\ reads = <<>>)

\* A buffer one byte short of the minimum has been rejected unread.
C2_Witness ==
    /\ Parsed
    /\ Len(account_data) = 499
    /\ pool_data = None
    /\ reads = <<>>

\* C8: a buffer reaches the account decoder only when its first 8 bytes are
\* the known type's discriminator tag: a buffer of at least 500 bytes that
\* starts otherwise yields no record, and none of its fields is decoded.
C8_OnlyTaggedBuffersDecoded ==
    (Parsed /\ Len(account_data) >= 500
        /\ ~StartsWith(account_data, BONDING_CURVE_DISCRIMINATOR_BYTES)) =>
            (pool_data = None /\ reads = <<>>)

\* C10: every slice [offset, offset + width) the decoder and its helpers
\* take lies inside the buffer, whatever the buffer's length.
C10_ReadsInsideBuffer ==
    Parsed => \A k \in 1..Len(reads) :
                reads[k].offset + reads[k].width <= Len(account_data)

\* A buffer of exactly the minimum size has been decoded to the end of the
\* protocol fee group, its last read being [224, 232).
C10_Witness ==
    /\ Parsed
    /\ Len(account_data) = 500
    /\ pool_data # None
    /\ Len(reads) = 30
    /\ reads[30] = Read(224, 8)

\* The slices a run of adjacent fields of the given widths takes from offset.
RECURSIVE ReadsFrom(_, _)
ReadsFrom(offset, widths) ==
    IF widths = <<>> THEN <<>>
    ELSE <<Read(offset, Head(widths))>>
            \o ReadsFrom(offset + Head(widths), Tail(widths))

\* The slices of the two parameter groups: the static group from byte 8 with
\* 5 bytes of padding behind it, the variable group with its two gaps.
GroupReads ==
    ReadsFrom(8, <<2, 2, 2, 2, 4, 4, 4, 4, 2, 1>>)
        \o ReadsFrom(8 + 27 + 5, <<4, 4, 4>>)
        \o ReadsFrom(8 + 27 + 5 + 12 + 4, <<8>>)

STATIC_NAMES ==
    {"base_factor", "filter_period", "decay_period", "reduction_factor",
     "variable_fee_control", "max_volatility_accumulator", "min_bin_id",
     "max_bin_id", "protocol_share", "base_fee_power_factor"}

VARIABLE_NAMES ==
    {"volatility_accumulator", "volatility_reference", "index_reference",
     "last_update_timestamp"}

ADDRESS_NAMES == <<"token_x_mint", "token_y_mint", "reserve_x", "reserve_y">>

GROUP_NAMES == {"static_parameters", "variable_parameters", "protocol_fee"}

\* The top-level scalar fields of a record: its keys that are neither a
\* group nor an address.
ScalarKeys(d) ==
    DOMAIN d \ (GROUP_NAMES \cup {ADDRESS_NAMES[j] : j \in 1..4})

\* The layout of C11 with n top-level scalar fields between the variable
\* group and the addresses: the reads are those of the two groups, then n
\* adjacent scalar reads from byte 72, then the four addresses, 32 bytes
\* each, adjacent and in order; no key of the record stands for padding.
LayoutWith(n) ==
    LET first == Len(GroupReads) + 1
        addr(j) == first + n + j - 1
    IN /\ Len(reads) >= addr(4)
       /\ SubSeq(reads, 1, Len(GroupReads)) = GroupReads
       /\ reads[first].offset = 8 + 27 + 5 + 12 + 4 + 8 + 8
       /\ \A k \in first..(addr(1) - 1) :
            /\ reads[k].width \in {1, 2, 4, 8}
            /\ reads[k + 1].offset = reads[k].offset + reads[k].width
       /\ \A j \in 1..4 :
            /\ reads[addr(j)].width = 32
            /\ j < 4 => reads[addr(j + 1)].offset = reads[addr(j)].offset + 32
            /\ pool_data[ADDRESS_NAMES[j]] =
                    b58encode(Slice(account_data, reads[addr(j)].offset,
                                    reads[addr(j)].offset + 32))
       /\ DOMAIN pool_data["static_parameters"] = STATIC_NAMES
       /\ DOMAIN pool_data["variable_parameters"] = VARIABLE_NAMES
       /\ Cardinality(ScalarKeys(pool_data)) = n

\* C11 as stated: the account decoder reads the static group, the variable
\* group, then nine top-level scalar fields, then the four addresses.
C11_NineTopLevelFields ==
    (Parsed /\ pool_data # None) => LayoutWith(9)

\* C11, amended: after the 8-byte discriminator the account decoder reads in
\* strict order the static group (2,2,2,2,4,4,4,4,2,1 bytes, a 5-byte gap),
\* the variable group (4,4,4 bytes, a 4-byte gap, 8 bytes, an 8-byte gap),
\* then ten top-level scalar fields (bytes 72..87), then the four 32-byte
\* addresses at bytes 88, 120, 152 and 184; every read starts where the one
\* before it (and the gap behind it) ended, and no padding is a field.
C11_TenTopLevelFields ==
    (Parsed /\ pool_data # None) =>
        /\ LayoutWith(10)
        /\ reads[Len(GroupReads) + 11] = Read(88, 32)

\* A buffer of 501 bytes has been decoded, its fourth address read at
\* [184, 216).
C11_Witness ==
    /\ Parsed
    /\ Len(account_data) = 501
    /\ pool_data # None
    /\ Len(reads) >= 28
    /\ reads[28] = Read(184, 32)

Pow256 == <<1, 256, 65536, 16777216>>

\* The bytes [offset, offset + width) of the decoded buffer.
BytesAt(offset, width) == Slice(account_data, offset, offset + width)

\* v is the two's-complement reading of the 4 little-endian bytes b: byte k
\* of b is digit k of v (floor division), and v is negative exactly when the
\* top bit of b is set.
IsSigned32(v, b) ==
    /\ \A k \in 1..4 : b[k] = (v \div Pow256[k]) % 256
    /\ (v < 0) <=> (b[4] >= 128)

\* w is the unsigned reading of the little-endian bytes b.
IsUnsignedWide(w, b) ==
    /\ w.neg = FALSE
    /\ w.mag = LStrip(Reverse(b), 0)

\* w is the two's-complement reading of the 8 little-endian bytes b: for a
\* set top bit w is negative and b is the complement of its magnitude plus
\* one; otherwise w is the unsigned reading.
IsSigned64(w, b) ==
    IF b[8] >= 128
    THEN /\ w.neg = TRUE
         /\ w.mag # <<>>
         /\ LET le == Reverse(w.mag) \o Repeat(0, 8 - Len(w.mag))
            IN b = Increment([i \in 1..8 |-> 255 - le[i]])
    ELSE IsUnsignedWide(w, b)

\* C12: every multi-byte field is read little-endian; min_bin_id,
\* max_bin_id, index_reference and active_id (4 bytes) and
\* last_update_timestamp (8 bytes) are two's-complement signed, negative
\* exactly when their top bit is set; the counts (2-, 4- and 8-byte, the
\* protocol fee amounts among them) are unsigned and never negative.
C12_SignedAndUnsignedFields ==
    (Parsed /\ pool_data # None) =>
        LET static == pool_data["static_parameters"]
            variable == pool_data["variable_parameters"]
            fee == pool_data["protocol_fee"]
        IN /\ IsSigned32(static["min_bin_id"], BytesAt(24, 4))
           /\ IsSigned32(static["max_bin_id"], BytesAt(28, 4))
           /\ IsSigned32(variable["index_reference"], BytesAt(48, 4))
           /\ IsSigned32(pool_data["active_id"], BytesAt(76, 4))
           /\ IsSigned64(variable["last_update_timestamp"], BytesAt(56, 8))
           /\ IsUnsignedWide(static["variable_fee_control"], BytesAt(16, 4))
           /\ IsUnsignedWide(static["max_volatility_accumulator"], BytesAt(20, 4))
           /\ IsUnsignedWide(variable["volatility_accumulator"], BytesAt(40, 4))
           /\ IsUnsignedWide(variable["volatility_reference"], BytesAt(44, 4))
           /\ \A f \in {<<"base_factor", 8>>, <<"filter_period", 10>>,
                        <<"decay_period", 12>>, <<"reduction_factor", 14>>,
                        <<"protocol_share", 32>>} :
                /\ static[f[1]] = account_data[f[2] + 1]
                                    + 256 * account_data[f[2] + 2]
                /\ static[f[1]] >= 0
           /\ \A f \in {<<"bin_step_seed", 73>>, <<"bin_step", 80>>,
                        <<"base_factor_seed", 84>>} :
                /\ pool_data[f[1]] = account_data[f[2] + 1]
                                    + 256 * account_data[f[2] + 2]
                /\ pool_data[f[1]] >= 0
           /\ "protocol_fee" \in DOMAIN pool_data =>
                /\ IsUnsignedWide(fee["amount_x"], BytesAt(216, 8))
                /\ IsUnsignedWide(fee["amount_y"], BytesAt(224, 8))

\* A buffer with every bit set has been decoded: the signed fields are -1,
\* the unsigned ones are not negative.
C12_Witness ==
    /\ Parsed
    /\ pool_data # None
    /\ account_data[80] = 255
    /\ pool_data["active_id"] = 0 - 1
    /\ pool_data["variable_parameters"]["last_update_timestamp"] =
            [neg |-> TRUE, mag |-> <<1>>]
    /\ pool_data["static_parameters"]["variable_fee_control"] =
            [neg |-> FALSE, mag |-> <<255, 255, 255, 255>>]

\* C13: the record holds protocol_fee if and only if at least 16 bytes
\* remain in the buffer after the fourth address; then it is read right
\* after that address as two 8-byte unsigned little-endian counters
\* amount_x and amount_y; otherwise the record is returned without it and
\* nothing is read after the fourth address.
C13_ProtocolFeeIffSixteenBytesRemain ==
    (Parsed /\ pool_data # None) =>
        LET after == reads[28].offset + reads[28].width
            fee == pool_data["protocol_fee"]
        IN /\ ("protocol_fee" \in DOMAIN pool_data)
                <=> (Len(account_data) - after >= 16)
           /\ IF "protocol_fee" \in DOMAIN pool_data
              THEN /\ DOMAIN fee = {"amount_x", "amount_y"}
                   /\ SubSeq(reads, 29, Len(reads)) = ReadsFrom(after, <<8, 8>>)
                   /\ IsUnsignedWide(fee["amount_x"], BytesAt(after, 8))
                   /\ IsUnsignedWide(fee["amount_y"], BytesAt(after + 8, 8))
              ELSE Len(reads) = 28

\* A buffer with every bit set has been decoded with its protocol fee: both
\* counters are 2^64 - 1.
C13_Witness ==
    /\ Parsed
    /\ pool_data # None
    /\ "protocol_fee" \in DOMAIN pool_data
    /\ pool_data["protocol_fee"]["amount_x"] =
            [neg |-> FALSE, mag |-> Repeat(255, 8)]
    /\ pool_data["protocol_fee"]["amount_y"] =
            [neg |-> FALSE, mag |-> Repeat(255, 8)]

SCALAR_NAMES ==
    {"bump_seed", "bin_step_seed", "pair_type", "active_id", "bin_step",
     "status", "require_base_factor_seed", "base_factor_seed",
     "activation_type", "creator_pool_on_off_control"}

\* C26: a record is returned exactly for the buffers of at least 500 bytes,
\* and every record holds the two parameter groups, every scalar field, the
\* four addresses and protocol_fee: the mandatory layout ends at byte 216,
\* so neither the second length check nor the case of fewer than 16 bytes
\* left happens to a buffer that passed the first check.
C26_EveryRecordIsComplete ==
    Parsed =>
        /\ pool_data # None <=> Len(account_data) >= MIN_ACCOUNT_LEN
        /\ pool_data # None =>
            /\ DOMAIN pool_data =
                    GROUP_NAMES \cup SCALAR_NAMES
                        \cup {ADDRESS_NAMES[j] : j \in 1..4}
            /\ DOMAIN pool_data["static_parameters"] = STATIC_NAMES
            /\ DOMAIN pool_data["variable_parameters"] = VARIABLE_NAMES
            /\ DOMAIN pool_data["protocol_fee"] = {"amount_x", "amount_y"}
            /\ reads[28].offset + reads[28].width = 216
            /\ Len(reads) = 30

\* The smallest buffer that is accepted has been decoded, fee included.
C26_Witness ==
    /\ Parsed
    /\ Len(account_data) = MIN_ACCOUNT_LEN
    /\ pool_data # None
    /\ "protocol_fee" \in DOMAIN pool_data

-----------------------------------------------------------------------------
(* Claims about calculate_discriminator, checked under SpecTag.            *)

\* C15: for every type name the tag is an integer in [0, 2^64), and its
\* encoding as 8 little-endian bytes succeeds and is the first 8 bytes of
\* the SHA-256 hash of "account:" + name.
C15_TagIsFirstEightHashBytes ==
    /\ discriminator # Pending =>
            /\ discriminator.neg = FALSE
            /\ Len(discriminator.mag) <= 8
            /\ discriminator.mag = <<>> \/ discriminator.mag[1] # 0
    /\ memcmp_bytes # Pending =>
            /\ memcmp_bytes.kind = "return"
            /\ memcmp_bytes.value =
                    SubSeq(sha256_digest(str_encode(ACCOUNT_PREFIX \o tag_name)),
                           1, 8)

\* The tag of "BondingCurve" has been computed and encoded: it is
\* 6966180631402821399, the bytes 17 b7 f8 37 60 d8 ac 60.
C15_Witness ==
    /\ tag_name = BONDING_CURVE
    /\ discriminator =
            [neg |-> FALSE, mag |-> <<96, 172, 216, 96, 55, 248, 183, 23>>]
    /\ memcmp_bytes = Returned(<<23, 183, 248, 55, 96, 216, 172, 96>>)

-----------------------------------------------------------------------------
(* Claims about the price functions, checked under SpecPrice.              *)

\* The number a returned str stands for.
ValueOf(text) ==
    IF text.kind = "decimal" THEN Finite(text.ln)
    ELSE IF text.text = "1.0" THEN ONE
    ELSE IF text.text = "inf" THEN INF
    ELSE ZERO

\* x < y on floats
FloatLess(x, y) ==
    CASE x.kind = "zero" -> y.kind # "zero"
      [] x.kind = "inf" -> FALSE
      [] x.kind = "finite" ->
            \/ y.kind = "inf"
            \/ y.kind = "finite" /\ x.ln < y.ln

\* C16: for active_id = 0 and every bin_step both price functions return
\* 1 adjusted by the decimal-places offset they apply to every other
\* active_id, that is 1 / 10 ** (9 - 6).
C16_ZeroBinPriceIsAdjustedOne ==
    /\ (price # Pending /\ price_active_id = 0) =>
            price = Finite(0 - LN_1000)
    /\ (precise # Pending /\ price_active_id = 0) =>
            ValueOf(precise) = Finite(0 - LN_1000)

\* C17: for every bin_step > 0 the price is strictly increasing in
\* active_id wherever it is not clamped: the price of a bin is below the
\* price of the next bin, also from -1 to 0 to 1 and from 500 to 501 either
\* side of zero.
C17_PriceStrictlyIncreasing ==
    (price # Pending /\ price_bin_step > 0) =>
        LET above == calculate_dlmm_price_actual(price_active_id + 1,
                                                 price_bin_step)
        IN (price.kind = "finite" /\ above.kind = "finite") =>
                FloatLess(price, above)

\* C18: calculate_dlmm_price_actual and calculate_precise_price_decimal
\* agree on the order of magnitude for the same input: where both are
\* positive and finite their ratio is less than 10 either way (far from
\* the factor 10 ** 3 of the decimal-places adjustment).
C18_PricePathsAgree ==
    (price # Pending /\ precise # Pending) =>
        LET exact == ValueOf(precise)
        IN (price.kind = "finite" /\ exact.kind = "finite") =>
                /\ price.ln - exact.ln < LN_1000 \div 3
                /\ exact.ln - price.ln < LN_1000 \div 3

-----------------------------------------------------------------------------
(* Claims about concurrent invocations, checked under SpecThreads.         *)

\* What the invocation of thread t returns when it runs alone.
Alone(t) ==
    LET c == call[t]
    IN CASE c.fn = "decode_create_instruction" ->
                decode_create_instruction(DecodeCalls[c.input].data,
                    DecodeCalls[c.input].ks, DecodeCalls[c.input].accs)
         [] c.fn = "parse_meteora_dlmm_account_data" ->
                parse_meteora_dlmm_account_data(ParseCalls[c.input])
         [] c.fn = "calculate_dlmm_price_actual" ->
                calculate_dlmm_price_actual(PriceCalls[c.input].active_id,
                                            PriceCalls[c.input].bin_step)
         [] c.fn = "calculate_precise_price_decimal" ->
                calculate_precise_price_decimal(PriceCalls[c.input].active_id,
                    PriceCalls[c.input].bin_step,
                    IF t = "main" THEN DECIMAL_PREC ELSE DEFAULT_PREC)

\* C19: however the invocations of two threads interleave, each returns
\* what it returns when run alone; no mutable object is read or written by
\* both threads; and the state set up at import (the decimal precision of
\* each thread's context) is never written afterwards.
C19_ConcurrentInvocationsIndependent ==
    /\ \A t \in THREADS : outcome[t] # Pending => outcome[t] = Alone(t)
    /\ \A p, q \in accessed : p[2] = q[2] => p[1] = q[1]
    /\ context = [t \in THREADS |->
                    IF t = "main" THEN DECIMAL_PREC ELSE DEFAULT_PREC]

\* Two invocations of decode_create_instruction on different inputs have
\* both ended, one returning its record and one raising, after running
\* interleaved.
C19_Witness ==
    /\ overlapped
    /\ call["main"] = [fn |-> "decode_create_instruction", input |-> 1]
    /\ call["worker"] = [fn |-> "decode_create_instruction", input |-> 2]
    /\ outcome["main"] # Pending
    /\ outcome["main"].kind = "return"
    /\ outcome["worker"] = Raised("struct.error")

-----------------------------------------------------------------------------
(* Claims about monitor_meteora_pool_price, checked under SpecMeteora.     *)

\* C20: in every reachable state of the monitor the number of account
\* updates received since the last printed one is at most
\* FORCE_PRINT_EVERY_N_UPDATES (500).
C20_PrintedEvery500Updates ==
    update_count - last_printed_update <= FORCE_PRINT_EVERY_N_UPDATES

\* The record the parser makes of a delivered response, None when there is
\* none: the response carries no account, no data, or data that does not
\* decode.
PoolOf(response) ==
    IF response = Pending THEN None
    ELSE IF ~response.account \/ response.data = <<>> THEN None
    ELSE parse_meteora_dlmm_account_data(response.data).value

Decodable(response) == PoolOf(response) # None

Reasons(e) == {e.reasons[i] : i \in DOMAIN e.reasons}

\* C21: every decodable update sets last_active_id to its active_id,
\* whether it is printed or skipped, and no other response changes
\* last_active_id; a decodable update whose active_id differs by at least
\* MIN_BIN_MOVEMENT from last_active_id, the active_id of the previous
\* decodable update, is printed.
C21_BinMovementAlwaysPrinted ==
    [][received' = received + 1 =>
        \A pool \in {PoolOf(delivered')} :
        IF pool # None
        THEN /\ last_active_id' = PyInt(pool["active_id"])
             /\ event'.kind \in {"printed", "skipped"}
             /\ (/\ last_active_id # None
                 /\ Abs(pool["active_id"] - last_active_id.n)
                        >= MIN_BIN_MOVEMENT)
                    => event'.kind = "printed"
        ELSE last_active_id' = last_active_id]_vars

\* A bin movement alone is printed after an update that was skipped.
C21_Witness ==
    /\ event.kind = "printed"
    /\ event.reasons = <<"Bin movement">>
    /\ event.skipped = 1

\* The price the handler computes for a decoded record.
PriceIn(pool) ==
    calculate_dlmm_price_actual(pool["active_id"], pool["bin_step"])

\* The price the handler computes for a decodable response.
PriceOf(response) == PriceIn(PoolOf(response))

\* C22: a decodable update is skipped (nothing printed, skipped_count one
\* more) only when last_price is not None, fewer than 500 updates have
\* arrived since the last printed one, its active_id equals last_active_id,
\* its price is finite and not zero, and the price has changed by less than
\* SIGNIFICANT_PRICE_CHANGE_PCT against last_price; skipped_count never
\* exceeds 499.
C22_SkippedOnlyWhenQuiet ==
    [][received' = received + 1 =>
        /\ skipped_count' <= FORCE_PRINT_EVERY_N_UPDATES - 1
        /\ event'.kind = "skipped" =>
            \A pool \in {PoolOf(delivered')} :
            /\ pool # None
            /\ skipped_count' = skipped_count + 1
            /\ printed_count' = printed_count
            /\ last_price # None
            /\ update_count' - last_printed_update < FORCE_PRINT_EVERY_N_UPDATES
            /\ last_active_id = PyInt(pool["active_id"])
            /\ ~IsClamped(PriceIn(pool))
            /\ ~PriceChangeSignificant(PriceIn(pool), last_price)]_vars

\* The 499th update skipped in a row.
C22_Witness ==
    /\ event.kind = "skipped"
    /\ skipped_count = FORCE_PRINT_EVERY_N_UPDATES - 1

\* C23: every decodable update whose price is clamped (infinity or 0.0) is
\* printed, as "First update" while there is no previous price and with
\* "Price became infinite/zero" otherwise, however many clamped updates came
\* before it; it leaves last_price as it was.
C23_ClampedPriceAlwaysPrinted ==
    [][received' = received + 1 =>
        \A pool \in {PoolOf(delivered')} :
        (pool # None /\ IsClamped(PriceIn(pool))) =>
        /\ event'.kind = "printed"
        /\ last_price' = last_price
        /\ IF last_price = None
           THEN event'.reasons = <<"First update">>
           ELSE "Price became infinite/zero" \in Reasons(event')]_vars

\* A clamped price printed again: the bin has not moved since the previous
\* decodable update, so that one was clamped as well.
C23_Witness ==
    /\ event.kind = "printed"
    /\ event.reasons = <<"Price became infinite/zero">>
    /\ Decodable(delivered)
    /\ IsClamped(PriceOf(delivered))

\* C24: last_price is None or a finite price that is not zero, and no
\* update is printed with the reason "Price recovered from infinite/zero".
C24_LastPriceNeverClamped ==
    /\ last_price = None \/ last_price.kind = "finite"
    /\ event.kind = "printed" =>
            "Price recovered from infinite/zero" \notin Reasons(event)

\* A finite price printed after a clamped one: the update before left
\* last_price None although it was printed, and this one is printed as the
\* first update once more.
C24_Witness ==
    /\ event.kind = "printed"
    /\ event.reasons = <<"First update">>
    /\ printed_count = 2
    /\ last_price # None

NoZero(divisors) == \A i \in DOMAIN divisors : divisors[i].kind # "zero"

\* C25: no update makes the monitor divide by zero: should_print_update,
\* for a printed and for a skipped update alike, and the block of the
\* changes since the last update divide by a last_price that is not zero,
\* and 1 / current_price is taken only of a price that is not zero.
C25_NoDivisionByZero ==
    [][received' = received + 1 =>
        \A pool \in {PoolOf(delivered')} :
        pool # None =>
        /\ NoZero(should_print_update(PriceIn(pool), last_price,
                    pool["active_id"], last_active_id,
                    update_count', last_printed_update).divisors)
        /\ event'.kind = "printed" => NoZero(event'.divisors)]_vars

\* A price of 0.0 is printed for a pool whose token Y is SOL: the inverse
\* price is not taken.
C25_Witness ==
    /\ event.kind = "printed"
    /\ Decodable(delivered)
    /\ PoolOf(delivered)["token_y_mint"] = SOL_MINT
    /\ PriceOf(delivered).kind = "zero"
    /\ ~event.inverse

-----------------------------------------------------------------------------
(* Claims about the historical replay, checked under SpecReplay.           *)

\* A current slot has been obtained: "not current_slot" is false.
Obtained == current_slot # None /\ current_slot # PyInt(0)

\* C27: without a current slot the replay subscription is never issued;
\* with one, the replay is requested with from_slot = current_slot - 100,
\* the loop stops at the first slot update whose slot is at least
\* current_slot - 10 and handles no update after it, and slot_count is the
\* number of slot updates received up to and including that one.
C27_ReplayEndsOnCatchingUp ==
    /\ replay_pc \in {"replay", "returned", "raised"} =>
            IF Obtained
            THEN subscribed = <<PyInt(current_slot.n - SLOTS_BACK)>>
            ELSE subscribed = <<>>
    /\ replay_event.kind = "slot" =>
            /\ replay_event.stop
                    <=> replay_event.value >= current_slot.n - CATCH_UP_MARGIN
            /\ replay_event.stop => replay_pc = "returned"
            /\ slot_count = replay_received - replay_others

\* C28: the progress of the replay is never computed with a zero divisor:
\* when slot_count is a multiple of 100, the first slot is more than 10
\* slots behind current_slot, as every slot update before this one was, so
\* current_slot - first_slot is positive and nothing is raised.
C28_ProgressDivisorPositive ==
    /\ replay_event.kind = "raise" => replay_event.exc # "ZeroDivisionError"
    /\ replay_event.kind = "slot" =>
            /\ replay_event.divisors # <<>>
                    <=> slot_count % PROGRESS_EVERY = 0
            /\ \A i \in DOMAIN replay_event.divisors :
                    /\ replay_event.divisors[i] = current_slot.n - first_slot.n
                    /\ replay_event.divisors[i] > CATCH_UP_MARGIN
    /\ (replay_pc = "replay" /\ first_slot # None) =>
            first_slot.n < current_slot.n - CATCH_UP_MARGIN

\* The progress has been computed at the hundredth slot update.
C28_Witness ==
    /\ replay_event.kind = "slot"
    /\ slot_count = PROGRESS_EVERY
    /\ replay_event.divisors = <<current_slot.n - first_slot.n>>

-----------------------------------------------------------------------------
(* Claims about monitor_pump, checked under SpecPump.                      *)

\* C7: no decode failure ends the host: after an update with a malformed or
\* truncated payload the stream loop is still running (no exception has
\* left monitor_pump).
C7_DecodeFailureKeepsLoopRunning == pump_pc # "raised"

\* C9: of every transaction, exactly the instructions whose data is at
\* least 8 bytes long and starts with PUMP_CREATE_PREFIX are decoded and
\* reported, in order; the others are passed over and the loop goes on to
\* the end of the transaction.
C9_ReportedIffPrefixMatches ==
    LET matches(j) ==
            /\ Len(msg.instructions[j].data) >= 8
            /\ SubSeq(msg.instructions[j].data, 1, 8) = PUMP_CREATE_PREFIX
        through == IF pump_pc = "for_ix" THEN ix - 1 ELSE Len(msg.instructions)
    IN reported = SelectSeq([j \in 1..through |-> j], matches)

=============================================================================
